---- MODULE Spec2Model ----
(***************************************************************************)
(* Verification model of the Seven Rays repository (src/7rays).            *)
(*                                                                         *)
(* Numbers.  The relationship scorer works on decimal constants with one   *)
(* digit after the point; they are kept as integer tenths (0.9 -> 9,       *)
(* 1.3 -> 13).  A product of three of them is an integer number of         *)
(* thousandths, so strength is kept in thousandths (1.0 -> 1000).  For all *)
(* 7 x 7 x 5 x 3 inputs the exact value and the IEEE double the program    *)
(* computes fall on the same side of every threshold the program compares  *)
(* against (0.2, 0.4, 0.6, 0.8, 0, 1).                                     *)
(***************************************************************************)
EXTENDS Integers, Sequences, FiniteSets, TLC

VARIABLES
    rel,        \* relationship_analyzer: the record last returned by calculate_dynamic_relationship
    band,       \* relationship_analyzer: two strengths and the labels _determine_interaction_type gave them
    matrix,     \* relationship_analyzer: the list last returned by generate_full_relationship_matrix
    files,      \* the working directory: file name -> content (NoFile when absent)
    imported,   \* the content last read back from an exported relationship file
    harmony,    \* relationship_analyzer: the dictionary last returned by _calculate_frequency_harmony
    affinity,   \* relationship_analyzer: the arguments and the value of the last _get_base_affinity
    score_locals,   \* relationship_analyzer: the four locals of the last calculate_dynamic_relationship
    entities_df,        \* app: the entity table, one row per entity
    kg_embeddings,      \* app: the graph vector of each row
    text_embeddings,    \* app: the text vector of each row
    fused_embeddings,   \* app: the one fused table
    requested_alpha,    \* the fusion weight of the latest visualization request (tenths)
    out,                \* what the latest search or arithmetic handler returned
    entities,   \* create_triples: the entity list last returned by create_entities_and_triples
    triples,    \* create_triples: the triple list last returned by create_entities_and_triples
    printed,    \* create_triples: the lines the last run of create_entities_and_triples printed
    loaded,     \* app: what load_data left in the globals when run on the pipeline's files
    building,   \* app: the table a create_visualization in progress has computed and not stored yet
    reading,    \* app: the query handler in progress and the vectors it has read so far
    reads,      \* app: the fused tables the latest query handler found at each of its reads
    setup       \* setup.py: where main is, the commands started, their exit statuses, the lines printed

scorerVars == <<rel, band, matrix, files, imported, harmony, affinity, score_locals>>

appVars == <<entities_df, kg_embeddings, text_embeddings, fused_embeddings, requested_alpha, out>>

builderVars == <<entities, triples, printed>>

pipelineVars == <<loaded>>

threadVars == <<building, reading, reads>>

setupVars == <<setup>>

vars == <<rel, band, matrix, files, imported, harmony, affinity, score_locals,
          entities_df, kg_embeddings, text_embeddings, fused_embeddings, requested_alpha, out,
          entities, triples, printed, loaded, building, reading, reads, setup>>

----------------------------------------------------------------------------
(* Bounds of the model *)

\* spacing, in thousandths, of the strengths handed to _determine_interaction_type
GridStep == 50

\* number of rows of the entity table the application is started on
NumEntities == 3

----------------------------------------------------------------------------
(* relationship_analyzer.py *)

Rays == 1..7
Planes == 1..7

\* self.contexts (keys)
contexts == {"mineral", "plant", "animal", "human", "spiritual"}

\* the context strings a caller passes: the five known ones and one unknown
ContextArgs == contexts \cup {"cosmic"}

CyclePhases == {"outgoing", "incoming", "balanced"}

NoRel == [ray |-> 0]
NoAffinity == [ray_num |-> 0, plane_num |-> 0]
NoLocals == [base_relationship |-> 0]
NoFile == [absent |-> TRUE]

\* tenths
primary_pairs ==
    (<<1, 1>> :> 9) @@ (<<1, 7>> :> 8) @@
    (<<2, 2>> :> 9) @@ (<<2, 6>> :> 7) @@
    (<<3, 3>> :> 9) @@ (<<3, 5>> :> 8) @@
    (<<4, 4>> :> 10) @@
    (<<5, 5>> :> 9) @@
    (<<6, 6>> :> 9) @@
    (<<7, 7>> :> 9)

\* tenths
secondary_pairs ==
    (<<1, 3>> :> 6) @@ (<<1, 5>> :> 5) @@
    (<<2, 4>> :> 8) @@ (<<2, 5>> :> 6) @@
    (<<3, 1>> :> 5) @@ (<<3, 7>> :> 7) @@
    (<<4, 2>> :> 7) @@ (<<4, 6>> :> 6) @@
    (<<5, 3>> :> 8) @@ (<<5, 7>> :> 6) @@
    (<<6, 2>> :> 6) @@ (<<6, 4>> :> 5) @@
    (<<7, 1>> :> 8) @@ (<<7, 3>> :> 6)

abs(x) == IF x < 0 THEN -x ELSE x

min(a, b) == IF b < a THEN b ELSE a

max(a, b) == IF b > a THEN b ELSE a

\* _get_base_affinity with no affinity left for a distant pair
_get_base_affinity_far_zero(ray_num, plane_num) ==
    IF <<ray_num, plane_num>> \in DOMAIN primary_pairs
    THEN primary_pairs[<<ray_num, plane_num>>]
    ELSE IF <<ray_num, plane_num>> \in DOMAIN secondary_pairs
    THEN secondary_pairs[<<ray_num, plane_num>>]
    ELSE LET diff == abs(ray_num - plane_num)
         IN  IF diff = 0 THEN 9
             ELSE IF diff <= 2 THEN 4
             ELSE 0

\* _get_base_affinity with diff < 2 in place of diff <= 2
_get_base_affinity_nearer(ray_num, plane_num) ==
    IF <<ray_num, plane_num>> \in DOMAIN primary_pairs
    THEN primary_pairs[<<ray_num, plane_num>>]
    ELSE IF <<ray_num, plane_num>> \in DOMAIN secondary_pairs
    THEN secondary_pairs[<<ray_num, plane_num>>]
    ELSE LET diff == abs(ray_num - plane_num)
         IN  IF diff = 0 THEN 9
             ELSE IF diff < 2 THEN 4
             ELSE 2

\* tenths
_get_base_affinity(ray_num, plane_num) ==
    IF <<ray_num, plane_num>> \in DOMAIN primary_pairs
    THEN primary_pairs[<<ray_num, plane_num>>]
    ELSE IF <<ray_num, plane_num>> \in DOMAIN secondary_pairs
    THEN secondary_pairs[<<ray_num, plane_num>>]
    ELSE LET diff == abs(ray_num - plane_num)
         IN  IF diff = 0 THEN 9
             ELSE IF diff <= 2 THEN 4
             ELSE 2

\* _get_context_modifier boosting the rays of a context's ray_emphasis list in the
\* contexts mineral and plant
_get_context_modifier_ray_emphasis(ray_num, plane_num, context) ==
    IF context \notin contexts THEN 10
    ELSE IF context = "human"
    THEN IF ray_num = 4 \/ plane_num = 4 THEN 13
         ELSE IF ray_num \in {2, 5} \/ plane_num \in {5, 6} THEN 11
         ELSE 10
    ELSE IF context = "spiritual"
    THEN IF ray_num \in {1, 2} \/ plane_num \in {1, 2, 3} THEN 12
         ELSE IF ray_num \in {6, 7} \/ plane_num \in {6, 7} THEN 8
         ELSE 10
    ELSE IF context = "animal"
    THEN IF ray_num \in {3, 6} \/ plane_num \in {6, 7} THEN 12
         ELSE IF ray_num \in {1, 5} \/ plane_num \in {1, 2} THEN 7
         ELSE 10
    ELSE IF context = "mineral"
    THEN IF ray_num \in {7, 1} THEN 11 ELSE 10
    ELSE IF context = "plant"
    THEN IF ray_num \in {6, 2} THEN 11 ELSE 10
    ELSE 10

\* _get_context_modifier testing the second rule of each context before the first
_get_context_modifier_second_first(ray_num, plane_num, context) ==
    IF context \notin contexts THEN 10
    ELSE IF context = "human"
    THEN IF ray_num \in {2, 5} \/ plane_num \in {5, 6} THEN 11
         ELSE IF ray_num = 4 \/ plane_num = 4 THEN 13
         ELSE 10
    ELSE IF context = "spiritual"
    THEN IF ray_num \in {6, 7} \/ plane_num \in {6, 7} THEN 8
         ELSE IF ray_num \in {1, 2} \/ plane_num \in {1, 2, 3} THEN 12
         ELSE 10
    ELSE IF context = "animal"
    THEN IF ray_num \in {1, 5} \/ plane_num \in {1, 2} THEN 7
         ELSE IF ray_num \in {3, 6} \/ plane_num \in {6, 7} THEN 12
         ELSE 10
    ELSE 10

\* tenths
_get_context_modifier(ray_num, plane_num, context) ==
    IF context \notin contexts THEN 10
    ELSE IF context = "human"
    THEN IF ray_num = 4 \/ plane_num = 4 THEN 13
         ELSE IF ray_num \in {2, 5} \/ plane_num \in {5, 6} THEN 11
         ELSE 10
    ELSE IF context = "spiritual"
    THEN IF ray_num \in {1, 2} \/ plane_num \in {1, 2, 3} THEN 12
         ELSE IF ray_num \in {6, 7} \/ plane_num \in {6, 7} THEN 8
         ELSE 10
    ELSE IF context = "animal"
    THEN IF ray_num \in {3, 6} \/ plane_num \in {6, 7} THEN 12
         ELSE IF ray_num \in {1, 5} \/ plane_num \in {1, 2} THEN 7
         ELSE 10
    ELSE 10

\* _get_cycle_modifier testing the parity of the plane
_get_cycle_modifier_plane_parity(ray_num, plane_num, cycle_phase) ==
    IF cycle_phase = "outgoing"
    THEN IF plane_num % 2 = 1 THEN 12 ELSE 9
    ELSE IF cycle_phase = "incoming"
    THEN IF plane_num % 2 = 0 THEN 12 ELSE 9
    ELSE 10

\* tenths
_get_cycle_modifier(ray_num, plane_num, cycle_phase) ==
    IF cycle_phase = "outgoing"
    THEN IF ray_num % 2 = 1 THEN 12 ELSE 9
    ELSE IF cycle_phase = "incoming"
    THEN IF ray_num % 2 = 0 THEN 12 ELSE 9
    ELSE 10

\* _get_fourth_emphasis_bonus without the bonus for one fourth
_get_fourth_emphasis_bonus_both_only(ray_num, plane_num) ==
    IF ray_num = 4 /\ plane_num = 4 THEN 200
    ELSE 0

\* thousandths
_get_fourth_emphasis_bonus(ray_num, plane_num) ==
    IF ray_num = 4 /\ plane_num = 4 THEN 200
    ELSE IF ray_num = 4 \/ plane_num = 4 THEN 100
    ELSE 0

\* _determine_interaction_type with strong_influence starting above 0.7
_determine_interaction_type_shifted(ray_num, plane_num, strength) ==
    IF strength > 800 THEN "primary_channel"
    ELSE IF strength > 700 THEN "strong_influence"
    ELSE IF strength > 400 THEN "moderate_interaction"
    ELSE IF strength > 200 THEN "subtle_resonance"
    ELSE "minimal_connection"

\* _determine_interaction_type with >= in place of > at every threshold
_determine_interaction_type_inclusive(ray_num, plane_num, strength) ==
    IF strength >= 800 THEN "primary_channel"
    ELSE IF strength >= 600 THEN "strong_influence"
    ELSE IF strength >= 400 THEN "moderate_interaction"
    ELSE IF strength >= 200 THEN "subtle_resonance"
    ELSE "minimal_connection"

\* strength in thousandths
_determine_interaction_type(ray_num, plane_num, strength) ==
    IF strength > 800 THEN "primary_channel"
    ELSE IF strength > 600 THEN "strong_influence"
    ELSE IF strength > 400 THEN "moderate_interaction"
    ELSE IF strength > 200 THEN "subtle_resonance"
    ELSE "minimal_connection"

\* the clamp without its upper limit
clamp_strength_no_upper(strength) == max(strength, 0)

\* min(max(strength, 0), 1), thousandths
clamp_strength(strength) == min(max(strength, 0), 1000)

\* calculate_dynamic_relationship with the bonus multiplied in instead of added
calculate_dynamic_relationship_bonus_factor(ray_num, plane_num, context, cycle_phase) ==
    LET base_relationship == _get_base_affinity(ray_num, plane_num)
        context_modifier == _get_context_modifier(ray_num, plane_num, context)
        cycle_modifier == _get_cycle_modifier(ray_num, plane_num, cycle_phase)
        fourth_emphasis == _get_fourth_emphasis_bonus(ray_num, plane_num)
        strength == clamp_strength(((base_relationship * context_modifier * cycle_modifier)
                                    * fourth_emphasis) \div 1000)
    IN  [ray |-> ray_num,
         plane |-> plane_num,
         strength |-> strength,
         context |-> context,
         cycle_phase |-> cycle_phase,
         interaction_type |-> _determine_interaction_type(ray_num, plane_num, strength)]

calculate_dynamic_relationship(ray_num, plane_num, context, cycle_phase) ==
    LET base_relationship == _get_base_affinity(ray_num, plane_num)
        context_modifier == _get_context_modifier(ray_num, plane_num, context)
        cycle_modifier == _get_cycle_modifier(ray_num, plane_num, cycle_phase)
        fourth_emphasis == _get_fourth_emphasis_bonus(ray_num, plane_num)
        strength == clamp_strength((base_relationship * context_modifier * cycle_modifier)
                                   + fourth_emphasis)
    IN  [ray |-> ray_num,
         plane |-> plane_num,
         strength |-> strength,
         context |-> context,
         cycle_phase |-> cycle_phase,
         interaction_type |-> _determine_interaction_type(ray_num, plane_num, strength)]

\* the locals calculate_dynamic_relationship holds before it composes them:
\* three factors in tenths, the bonus in thousandths
calculate_dynamic_relationship_locals(ray_num, plane_num, context, cycle_phase) ==
    [base_relationship |-> _get_base_affinity(ray_num, plane_num),
     context_modifier |-> _get_context_modifier(ray_num, plane_num, context),
     cycle_modifier |-> _get_cycle_modifier(ray_num, plane_num, cycle_phase),
     fourth_emphasis |-> _get_fourth_emphasis_bonus(ray_num, plane_num)]

\* the inner loop with range(1, 7): plane 7 is left out
RECURSIVE matrix_planes_short(_, _, _)
matrix_planes_short(ray_num, plane_num, context) ==
    IF plane_num > 6 THEN <<>>
    ELSE <<calculate_dynamic_relationship(ray_num, plane_num, context, "balanced")>>
         \o matrix_planes_short(ray_num, plane_num + 1, context)

\* the inner loop scoring with cycle phase outgoing
RECURSIVE matrix_planes_outgoing(_, _, _)
matrix_planes_outgoing(ray_num, plane_num, context) ==
    IF plane_num > 7 THEN <<>>
    ELSE <<calculate_dynamic_relationship(ray_num, plane_num, context, "outgoing")>>
         \o matrix_planes_outgoing(ray_num, plane_num + 1, context)

\* the inner loop of generate_full_relationship_matrix: planes plane_num..7 of one ray
RECURSIVE matrix_planes(_, _, _)
matrix_planes(ray_num, plane_num, context) ==
    IF plane_num > 7 THEN <<>>
    ELSE <<calculate_dynamic_relationship(ray_num, plane_num, context, "balanced")>>
         \o matrix_planes(ray_num, plane_num + 1, context)

\* the outer loop of generate_full_relationship_matrix: rays ray_num..7
RECURSIVE matrix_rays(_, _)
matrix_rays(ray_num, context) ==
    IF ray_num > 7 THEN <<>>
    ELSE matrix_planes(ray_num, 1, context) \o matrix_rays(ray_num + 1, context)

generate_full_relationship_matrix(context) == matrix_rays(1, context)

NoHarmony == [ray_frequency |-> 0]

\* a fraction in lowest terms, the denominator positive
RECURSIVE gcd2(_, _)
gcd2(a, b) == IF b = 0 THEN a ELSE gcd2(b, a % b)

frac(n, d) ==
    LET g == gcd2(abs(n), abs(d))
        sign == IF d < 0 THEN -1 ELSE 1
    IN  [num |-> sign * (n \div g), den |-> sign * (d \div g)]

\* abs(a - b) of two fractions
frac_distance(a, b) == frac(abs(a.num * b.den - b.num * a.den), a.den * b.den)

\* a < b for two fractions
frac_lt(a, b) == a.num * b.den < b.num * a.den

\* min of a sequence of fractions
frac_min(fs) == fs[CHOOSE i \in 1..Len(fs) : \A k \in 1..Len(fs) : ~ frac_lt(fs[k], fs[i])]

\* _calculate_consonance: 1 / (1 + min_distance * 5)
_calculate_consonance(ratio) ==
    LET simple_ratios == <<frac(1, 1), frac(2, 1), frac(3, 2), frac(4, 3), frac(5, 4),
                           frac(6, 5), frac(8, 7)>>
        min_distance == frac_min([i \in 1..7 |-> frac_distance(ratio, simple_ratios[i])])
    IN  frac(min_distance.den, min_distance.den + 5 * min_distance.num)

\* _calculate_frequency_harmony; numbers are exact fractions, and the plane frequency
\* times 100 is the number of hundredths that the taxonomy keeps
_calculate_frequency_harmony(planes, ray_num, plane_num) ==
    LET intervals == <<frac(1, 1), frac(9, 8), frac(5, 4), frac(4, 3), frac(3, 2), frac(5, 3),
                       frac(15, 8)>>
        base_freq == 432
        ray_freq == frac(base_freq * intervals[ray_num].num, intervals[ray_num].den)
        plane_freq == planes[plane_num].frequency
        ratio == IF plane_freq # 0 THEN frac(ray_freq.num, ray_freq.den * plane_freq)
                 ELSE frac(1, 1)
    IN  [ray_frequency |-> ray_freq,
         plane_frequency |-> plane_freq,
         harmonic_ratio |-> ratio,
         consonance |-> _calculate_consonance(ratio)]

\* the default file name of export_relationships
export_filename(context) == "ray_plane_relationships_" \o context \o ".json"

FileNames == {export_filename(c) : c \in ContextArgs}

\* the files the pipeline steps hand to each other
PipelineFiles == {"data/nodes.csv", "data/edges.csv", "kg_embeddings.npy", "entity_mapping.pkl"}

\* the dictionary export_relationships dumps and returns
export_output(context) ==
    LET relationships == generate_full_relationship_matrix(context)
    IN  [context |-> context,
         total_relationships |-> Len(relationships),
         relationships |-> relationships,
         metadata |-> [note |-> "Dynamic relationships - not static mappings",
                       fourth_emphasis |-> "Ray 4 and Plane 4 receive special attention",
                       generated_by |-> "7rays_relationship_analyzer"]]

(* json.dump and json.load.  A JSON text is kept as its value tree: a number, *)
(* a string, an array of values, or an object, which is the list of its       *)
(* (key, value) members in the order they were written.                       *)
JNum(n) == [t |-> "number", v |-> n]

JStr(s) == [t |-> "string", v |-> s]

JArr(a) == [t |-> "array", v |-> a]

JObj(members) == [t |-> "object", v |-> members]

\* json.dump of one relationship record
json_dump_relationship(r) ==
    JObj(<< <<"ray", JNum(r.ray)>>,
            <<"plane", JNum(r.plane)>>,
            <<"strength", JNum(r.strength)>>,
            <<"context", JStr(r.context)>>,
            <<"cycle_phase", JStr(r.cycle_phase)>>,
            <<"interaction_type", JStr(r.interaction_type)>> >>)

\* json.dump(output, f) in export_relationships
json_dump_output(output) ==
    JObj(<< <<"context", JStr(output.context)>>,
            <<"total_relationships", JNum(output.total_relationships)>>,
            <<"relationships",
              JArr([i \in 1..Len(output.relationships) |->
                        json_dump_relationship(output.relationships[i])])>>,
            <<"metadata",
              JObj(<< <<"note", JStr(output.metadata.note)>>,
                      <<"fourth_emphasis", JStr(output.metadata.fourth_emphasis)>>,
                      <<"generated_by", JStr(output.metadata.generated_by)>> >>)>> >>)

\* json.load: an object becomes a dict (the last member of a key wins), an array a list
RECURSIVE json_load(_)
json_load(j) ==
    CASE j.t = "number" -> j.v
      [] j.t = "string" -> j.v
      [] j.t = "array" -> [i \in 1..Len(j.v) |-> json_load(j.v[i])]
      [] j.t = "object" ->
            LET keys == {j.v[i][1] : i \in 1..Len(j.v)}
                last(k) == CHOOSE i \in 1..Len(j.v) :
                               /\ j.v[i][1] = k
                               /\ \A m \in 1..Len(j.v) : j.v[m][1] = k => m <= i
            IN  [k \in keys |-> json_load(j.v[last(k)][2])]

----------------------------------------------------------------------------
(* Python strings on which the program works character by character are     *)
(* kept as sequences of one-character strings.                              *)

UpperLetters ==
    <<"A", "B", "C", "D", "E", "F", "G", "H", "I", "J", "K", "L", "M",
      "N", "O", "P", "Q", "R", "S", "T", "U", "V", "W", "X", "Y", "Z">>

LowerLetters ==
    <<"a", "b", "c", "d", "e", "f", "g", "h", "i", "j", "k", "l", "m",
      "n", "o", "p", "q", "r", "s", "t", "u", "v", "w", "x", "y", "z">>

\* str.lower of one character
lower_char(c) ==
    IF \E i \in 1..26 : UpperLetters[i] = c
    THEN LowerLetters[CHOOSE i \in 1..26 : UpperLetters[i] = c]
    ELSE c

\* str.lower
str_lower(s) == [i \in 1..Len(s) |-> lower_char(s[i])]

\* needle in hay (str.contains with regex=False)
str_contains(hay, needle) ==
    \E i \in 0..(Len(hay) - Len(needle)) :
        \A m \in 1..Len(needle) : hay[i + m] = needle[m]

\* str.strip
RECURSIVE str_strip(_)
str_strip(s) ==
    IF s = <<>> THEN s
    ELSE IF Head(s) = " " THEN str_strip(Tail(s))
    ELSE IF s[Len(s)] = " " THEN str_strip(SubSeq(s, 1, Len(s) - 1))
    ELSE s

----------------------------------------------------------------------------
(* app.py *)
(*                                                                         *)
(* Vectors are integer sequences in fixed point.  A graph vector is an     *)
(* integer vector whose length is an integer; a unit-length vector (a      *)
(* normalized graph vector, a text vector) has 1.0 = 20; a fused vector,   *)
(* being a weight in tenths times such a vector, has 1.0 = 200.  All       *)
(* components of unit-length vectors are even, so halving a sum of two     *)
(* fused vectors is exact.                                                 *)

NoOut == [kind |-> "none"]

\* no create_visualization in progress, no query handler in progress
NoBuild == [alpha |-> -1]

NoRead == [fn |-> "none"]

\* setup.py not started
NoSetup == [pc |-> "none"]

\* the slider of the visualization tab: 0.0 .. 1.0 in steps of 0.1, in tenths
AlphaSlider == 0..10

dot(a, b) == LET n == min(Len(a), Len(b))
                 RECURSIVE sum(_)
                 sum(j) == IF j > n THEN 0 ELSE a[j] * b[j] + sum(j + 1)
             IN  sum(1)

\* np.linalg.norm of one row (the rows of the model have integer length)
linalg_norm(v) == CHOOSE r \in 0..dot(v, v) : r * r = dot(v, v)

\* number of columns of a table
shape1(table) == Len(table[1])

\* nan, the quotient 0/0 of numpy: kept as a number that no component can be; any sum
\* or product with it is nan again
NaN == 1000000

\* create_fused_embeddings normalizing the graph rows after truncating them
create_fused_embeddings_truncate_first(alpha) ==
    LET min_dim == min(shape1(kg_embeddings), shape1(text_embeddings))
        kg_aligned == [i \in 1..Len(kg_embeddings) |-> SubSeq(kg_embeddings[i], 1, min_dim)]
        kg_norm == [i \in 1..Len(kg_aligned) |->
                       [j \in 1..min_dim |->
                           IF linalg_norm(kg_aligned[i]) = 0 THEN NaN
                           ELSE (kg_aligned[i][j] * 20) \div linalg_norm(kg_aligned[i])]]
        text_aligned == [i \in 1..Len(text_embeddings) |-> SubSeq(text_embeddings[i], 1, min_dim)]
    IN  [i \in 1..Len(kg_norm) |->
            [j \in 1..min_dim |->
                IF kg_norm[i][j] = NaN THEN NaN
                ELSE alpha * kg_norm[i][j] + (10 - alpha) * text_aligned[i][j]]]

create_fused_embeddings(alpha) ==
    LET kg_norm == [i \in 1..Len(kg_embeddings) |->
                       [j \in 1..Len(kg_embeddings[i]) |->
                           IF linalg_norm(kg_embeddings[i]) = 0 THEN NaN
                           ELSE (kg_embeddings[i][j] * 20) \div linalg_norm(kg_embeddings[i])]]
        min_dim == min(shape1(kg_norm), shape1(text_embeddings))
        kg_aligned == [i \in 1..Len(kg_norm) |-> SubSeq(kg_norm[i], 1, min_dim)]
        text_aligned == [i \in 1..Len(text_embeddings) |-> SubSeq(text_embeddings[i], 1, min_dim)]
    IN  [i \in 1..Len(kg_aligned) |->
            [j \in 1..min_dim |->
                IF kg_aligned[i][j] = NaN THEN NaN
                ELSE alpha * kg_aligned[i][j] + (10 - alpha) * text_aligned[i][j]]]

RECURSIVE gcd(_, _)
gcd(a, b) == IF b = 0 THEN abs(a) ELSE gcd(b, a % b)

\* the greatest common divisor of the components from position j on
RECURSIVE vec_gcd(_, _)
vec_gcd(v, j) == IF j > Len(v) THEN 0 ELSE gcd(v[j], vec_gcd(v, j + 1))

\* a non-zero vector divided by the greatest common divisor of its components
lowest_terms(v) == [j \in 1..Len(v) |-> v[j] \div vec_gcd(v, 1)]

(* cosine_similarity(query, table)[0].  A cosine is a quotient of a dot      *)
(* product by a square root; it is kept as the fraction num/den that is the  *)
(* cosine squared with the cosine's sign, which orders as the cosine does    *)
(* and is 1 exactly when the cosine is 1.  The cosine does not change when   *)
(* a vector is divided by a positive number, and both vectors are first      *)
(* brought to lowest terms so that the products stay small.  sklearn divides *)
(* by 1 in place of a zero length, so a zero vector has similarity 0 to      *)
(* everything.                                                               *)
cosine_one(q, r) ==
    IF dot(q, q) = 0 \/ dot(r, r) = 0 THEN [num |-> 0, den |-> 1]
    ELSE LET d == dot(lowest_terms(q), lowest_terms(r))
             nq == dot(lowest_terms(q), lowest_terms(q))
             nr == dot(lowest_terms(r), lowest_terms(r))
         IN  [num |-> IF d < 0 THEN -(d * d) ELSE d * d, den |-> nq * nr]

cosine_similarity(q, table) == [i \in 1..Len(table) |-> cosine_one(q, table[i])]

\* a/b > c/d for a, c >= 0 and b, d > 0, by comparing the continued fractions
RECURSIVE frac_gt(_, _, _, _)
frac_gt(a, b, c, d) ==
    IF a \div b # c \div d THEN a \div b > c \div d
    ELSE IF a % b = 0 THEN FALSE
    ELSE IF c % d = 0 THEN TRUE
    ELSE frac_gt(d, c % d, b, a % b)

\* a > b for two similarities
sim_gt(a, b) ==
    IF a.num >= 0 /\ b.num >= 0 THEN frac_gt(a.num, a.den, b.num, b.den)
    ELSE IF a.num >= 0 THEN TRUE
    ELSE IF b.num >= 0 THEN FALSE
    ELSE frac_gt(-b.num, b.den, -a.num, a.den)

(* np.argsort(-similarities): the default sort kind is not stable, so among  *)
(* equal similarities any order can come out; every index order in which no  *)
(* later similarity is greater than an earlier one is a possible result.     *)
RECURSIVE sorted_orders(_, _)
sorted_orders(similarities, rest) ==
    IF rest = {} THEN {<<>>}
    ELSE UNION {{<<i>> \o p : p \in sorted_orders(similarities, rest \ {i})} :
                   i \in {m \in rest : \A k \in rest : ~ sim_gt(similarities[k], similarities[m])}}

\* np.argsort(similarities), the minus sign forgotten: ascending orders
RECURSIVE ascending_orders(_, _)
ascending_orders(similarities, rest) ==
    IF rest = {} THEN {<<>>}
    ELSE UNION {{<<i>> \o p : p \in ascending_orders(similarities, rest \ {i})} :
                   i \in {m \in rest : \A k \in rest : ~ sim_gt(similarities[m], similarities[k])}}

argsort_asc(similarities) == ascending_orders(similarities, 1..Len(similarities))

argsort_desc(similarities) == sorted_orders(similarities, 1..Len(similarities))

\* a[:k]
take(a, k) == SubSeq(a, 1, min(k, Len(a)))

\* label_matches without lower-casing the labels
label_matches_case_sensitive(needle) ==
    {i \in 1..Len(entities_df) : str_contains(entities_df[i].label, needle)}

\* the positions of the rows whose lower-cased label contains the needle
label_matches(needle) ==
    {i \in 1..Len(entities_df) : str_contains(str_lower(entities_df[i].label), needle)}

\* matches.index[-1]
last_index(matches) == CHOOSE i \in matches : \A k \in matches : k <= i

\* matches.index[0]
first_index(matches) == CHOOSE i \in matches : \A k \in matches : i <= k

\* the result rows of both handlers: the entity's label and kind and its score
\* (the Similarity column shows the score with three decimals); the rows of
\* ray_plane_arithmetic are numbered as well
result_rows(fn, top_indices, similarities) ==
    [n \in 1..Len(top_indices) |->
        IF fn = "ray_plane_arithmetic"
        THEN [Rank |-> n,
              Entity |-> entities_df[top_indices[n]].label,
              Type |-> entities_df[top_indices[n]].kind,
              score |-> similarities[top_indices[n]]]
        ELSE [Entity |-> entities_df[top_indices[n]].label,
              Type |-> entities_df[top_indices[n]].kind,
              score |-> similarities[top_indices[n]]]]

\* find_entity_embedding of ray_plane_arithmetic: the row found, 0 for (None, None)
find_entity_embedding(concept_name) ==
    LET matches == label_matches(str_lower(concept_name))
    IN  IF Cardinality(matches) > 0 THEN first_index(matches) ELSE 0

Operations == {"Add (+)", "Subtract (-)", "Average"}

\* the composed vector of ray_plane_arithmetic
arithmetic_emb(ray_emb, operation, plane_emb) ==
    IF operation = "Add (+)"
    THEN [j \in 1..Len(ray_emb) |-> ray_emb[j] + plane_emb[j]]
    ELSE IF operation = "Subtract (-)"
    THEN [j \in 1..Len(ray_emb) |-> ray_emb[j] - plane_emb[j]]
    ELSE [j \in 1..Len(ray_emb) |-> (ray_emb[j] + plane_emb[j]) \div 2]

arithmetic_op_text(ray_found, operation, plane_found) ==
    IF operation = "Add (+)" THEN <<ray_found, " + ", plane_found>>
    ELSE IF operation = "Subtract (-)" THEN <<ray_found, " - ", plane_found>>
    ELSE <<"(", ray_found, " + ", plane_found, ") / 2">>

----------------------------------------------------------------------------
(* extract_meanings.py: the taxonomy that export_to_json writes to           *)
(* 7rays_data.json                                                           *)

\* SEVEN_RAYS, as the builder reads it back from 7rays_data.json: the rays in the order of
\* their keys "1" .. "7"; keywords are character sequences
SEVEN_RAYS ==
    <<
      [name |-> "Will or Power",
       quality |-> "Will to manifest, Divine Purpose, Leadership",
       color |-> "#FF0000",
       planetary_ruler |-> "Vulcan (hidden)",
       note |-> "DO",
       element |-> "Fire",
       purpose |-> "To initiate and destroy",
       keywords |-> <<<<"P", "o", "w", "e", "r">>,
                       <<"W", "i", "l", "l">>,
                       <<"P", "u", "r", "p", "o", "s", "e">>,
                       <<"L", "e", "a", "d", "e", "r", "s", "h", "i", "p">>,
                       <<"I", "n", "i", "t", "i", "a", "t", "i", "v", "e">>>>],
      [name |-> "Love-Wisdom",
       quality |-> "Inclusive love, Wisdom through experience",
       color |-> "#0066FF",
       planetary_ruler |-> "Jupiter",
       note |-> "RE",
       element |-> "Water",
       purpose |-> "To teach and heal",
       keywords |-> <<<<"L", "o", "v", "e">>,
                       <<"W", "i", "s", "d", "o", "m">>,
                       <<"T", "e", "a", "c", "h", "i", "n", "g">>,
                       <<"H", "e", "a", "l", "i", "n", "g">>,
                       <<"I", "n", "t", "u", "i", "t", "i", "o", "n">>>>],
      [name |-> "Active Intelligence",
       quality |-> "Creative intelligence, Adaptability",
       color |-> "#FFFF00",
       planetary_ruler |-> "Saturn",
       note |-> "MI",
       element |-> "Air",
       purpose |-> "To manipulate matter and energy",
       keywords |-> <<<<"I", "n", "t", "e", "l", "l", "i", "g", "e", "n", "c", "e">>,
                       <<"C", "r", "e", "a", "t", "i", "v", "i", "t", "y">>,
                       <<"M", "a", "n", "i", "p", "u", "l", "a", "t", "i", "o", "n">>,
                       <<"M", "e", "n", "t", "a", "l">>,
                       <<"A", "d", "a", "p", "t", "a", "b", "i", "l", "i", "t", "y">>>>],
      [name |-> "Harmony through Conflict",
       quality |-> "Beauty, Art, Bridge-building, Mediation",
       color |-> "#00FF00",
       planetary_ruler |-> "Mercury",
       note |-> "FA",
       element |-> "Earth-Water",
       purpose |-> "To harmonize and beautify",
       keywords |-> <<<<"H", "a", "r", "m", "o", "n", "y">>,
                       <<"B", "e", "a", "u", "t", "y">>,
                       <<"C", "o", "n", "f", "l", "i", "c", "t">>,
                       <<"A", "r", "t">>,
                       <<"M", "e", "d", "i", "a", "t", "i", "o", "n">>,
                       <<"B", "r", "i", "d", "g", "e">>>>],
      [name |-> "Concrete Knowledge",
       quality |-> "Science, Research, Precision",
       color |-> "#FF8000",
       planetary_ruler |-> "Venus",
       note |-> "SOL",
       element |-> "Fire-Air",
       purpose |-> "To know and understand",
       keywords |-> <<<<"S", "c", "i", "e", "n", "c", "e">>,
                       <<"R", "e", "s", "e", "a", "r", "c", "h">>,
                       <<"K", "n", "o", "w", "l", "e", "d", "g", "e">>,
                       <<"P", "r", "e", "c", "i", "s", "i", "o", "n">>,
                       <<"A", "n", "a", "l", "y", "s", "i", "s">>>>],
      [name |-> "Devotion and Idealism",
       quality |-> "Devotion, Idealism, Religious fervor",
       color |-> "#FF00FF",
       planetary_ruler |-> "Mars/Neptune",
       note |-> "LA",
       element |-> "Water-Fire",
       purpose |-> "To idealize and devote",
       keywords |-> <<<<"D", "e", "v", "o", "t", "i", "o", "n">>,
                       <<"I", "d", "e", "a", "l", "i", "s", "m">>,
                       <<"R", "e", "l", "i", "g", "i", "o", "n">>,
                       <<"F", "a", "i", "t", "h">>,
                       <<"E", "m", "o", "t", "i", "o", "n">>>>],
      [name |-> "Ceremonial Order",
       quality |-> "Organization, Ritual, Magic, Transformation",
       color |-> "#8000FF",
       planetary_ruler |-> "Uranus",
       note |-> "SI",
       element |-> "Earth-Air",
       purpose |-> "To organize and ritualize",
       keywords |-> <<<<"O", "r", "d", "e", "r">>,
                       <<"C", "e", "r", "e", "m", "o", "n", "y">>,
                       <<"M", "a", "g", "i", "c">>,
                       <<"R", "i", "t", "u", "a", "l">>,
                       <<"O", "r", "g", "a", "n", "i", "z", "a", "t", "i", "o", "n">>,
                       <<"T", "r", "a", "n", "s", "f", "o", "r", "m", "a", "t", "i", "o", "n">>>>]
    >>

\* SEVEN_PLANES, in the order of the keys "1" .. "7"; frequency in hundredths;
\* alternate names are character sequences
SEVEN_PLANES ==
    <<
      [name |-> "Logoic Plane",
       alternate_names |-> <<<<"A", "d", "i">>,
                              <<"D", "i", "v", "i", "n", "e">>>>,
       consciousness_state |-> "Logoic consciousness, Divine Will",
       element |-> "Pure Spirit",
       color |-> "#FFFFFF",
       frequency |-> 723,
       geometric_form |-> "Point",
       description |-> "Plane of divine purpose and will, source of all manifestation"],
      [name |-> "Monadic Plane",
       alternate_names |-> <<<<"A", "n", "u", "p", "a", "d", "a", "k", "a">>,
                              <<"P", "r", "i", "m", "o", "r", "d", "i", "a", "l">>>>,
       consciousness_state |-> "Monadic consciousness, Divine Love-Wisdom",
       element |-> "Spirit-Matter",
       color |-> "#E6E6FA",
       frequency |-> 619,
       geometric_form |-> "Line",
       description |-> "Plane of the Monad, divine spark, love-wisdom aspect"],
      [name |-> "Atmic Plane",
       alternate_names |-> <<<<"S", "p", "i", "r", "i", "t", "u", "a", "l">>,
                              <<"N", "i", "r", "v", "a", "n", "i", "c">>>>,
       consciousness_state |-> "Spiritual will, Atmic consciousness",
       element |-> "Spiritual Fire",
       color |-> "#FFD700",
       frequency |-> 529,
       geometric_form |-> "Triangle",
       description |-> "Plane of spiritual will, home of the spiritual triad"],
      [name |-> "Buddhic Plane",
       alternate_names |-> <<<<"I", "n", "t", "u", "i", "t", "i", "o", "n", "a", "l">>,
                              <<"C", "h", "r", "i", "s", "t", " ", "C", "o", "n", "s", "c", "i", "o", "u", "s", "n", "e", "s", "s">>>>,
       consciousness_state |-> "Intuitional consciousness, Unity perception",
       element |-> "Pure reason, Intuition",
       color |-> "#00BFFF",
       frequency |-> 452,
       geometric_form |-> "Square",
       description |-> "Plane of pure reason and intuition, Christ consciousness, unity awareness"],
      [name |-> "Mental Plane",
       alternate_names |-> <<<<"M", "a", "n", "a", "s", "i", "c">>,
                              <<"M", "i", "n", "d">>>>,
       consciousness_state |-> "Abstract and concrete thought",
       element |-> "Mental matter",
       color |-> "#FFFF00",
       frequency |-> 386,
       geometric_form |-> "Pentagon",
       description |-> "Plane of mind, abstract and concrete thought, ideas and concepts"],
      [name |-> "Astral Plane",
       alternate_names |-> <<<<"E", "m", "o", "t", "i", "o", "n", "a", "l">>,
                              <<"D", "e", "s", "i", "r", "e">>,
                              <<"K", "a", "m", "i", "c">>>>,
       consciousness_state |-> "Emotional consciousness, Desire",
       element |-> "Emotional/astral matter",
       color |-> "#FF69B4",
       frequency |-> 330,
       geometric_form |-> "Hexagon",
       description |-> "Plane of emotions, desires, feelings, astral experiences"],
      [name |-> "Physical Plane",
       alternate_names |-> <<<<"D", "e", "n", "s", "e">>,
                              <<"E", "t", "h", "e", "r", "i", "c", "-", "P", "h", "y", "s", "i", "c", "a", "l">>>>,
       consciousness_state |-> "Physical consciousness, Material awareness",
       element |-> "Dense and etheric matter",
       color |-> "#8B4513",
       frequency |-> 282,
       geometric_form |-> "Heptagon",
       description |-> "Plane of dense matter and etheric energies, physical manifestation"]
    >>

\* RAY_PLANE_RELATIONSHIPS["primary_rulerships"], in the order of the keys "1" .. "7"
primary_rulerships ==
    <<<<1, 7>>, <<2, 6>>, <<3, 5>>, <<4>>, <<5>>, <<6>>, <<7>>>>

\* COLOR_RELATIONSHIPS["primary_triad"]: (color name, ray number) in dictionary order
primary_triad ==
    <<[color_name |-> <<"r", "e", "d">>, ray_num |-> 1],
      [color_name |-> <<"b", "l", "u", "e">>, ray_num |-> 2],
      [color_name |-> <<"y", "e", "l", "l", "o", "w">>, ray_num |-> 3]>>

\* bailey_quotes, as character sequences
bailey_quotes ==
    <<
      \* Enlightenment is humanity's emergence from self-incurred immaturity
      <<"E", "n", "l", "i", "g", "h", "t", "e", "n", "m", "e", "n", "t", " ", "i", "s", " ", "h",
        "u", "m", "a", "n", "i", "t", "y", "'", "s", " ", "e", "m", "e", "r", "g", "e", "n", "c",
        "e", " ", "f", "r", "o", "m", " ", "s", "e", "l", "f", "-", "i", "n", "c", "u", "r", "r",
        "e", "d", " ", "i", "m", "m", "a", "t", "u", "r", "i", "t", "y">>,
      \* The fourth ray is the ray of harmony through conflict
      <<"T", "h", "e", " ", "f", "o", "u", "r", "t", "h", " ", "r", "a", "y", " ", "i", "s", " ",
        "t", "h", "e", " ", "r", "a", "y", " ", "o", "f", " ", "h", "a", "r", "m", "o", "n", "y",
        " ", "t", "h", "r", "o", "u", "g", "h", " ", "c", "o", "n", "f", "l", "i", "c", "t">>,
      \* The buddhic plane is the plane of pure reason and intuition
      <<"T", "h", "e", " ", "b", "u", "d", "d", "h", "i", "c", " ", "p", "l", "a", "n", "e", " ",
        "i", "s", " ", "t", "h", "e", " ", "p", "l", "a", "n", "e", " ", "o", "f", " ", "p", "u",
        "r", "e", " ", "r", "e", "a", "s", "o", "n", " ", "a", "n", "d", " ", "i", "n", "t", "u",
        "i", "t", "i", "o", "n">>,
      \* Humanity serves as the bridge between the animal and spiritual kingdoms
      <<"H", "u", "m", "a", "n", "i", "t", "y", " ", "s", "e", "r", "v", "e", "s", " ", "a", "s",
        " ", "t", "h", "e", " ", "b", "r", "i", "d", "g", "e", " ", "b", "e", "t", "w", "e", "e",
        "n", " ", "t", "h", "e", " ", "a", "n", "i", "m", "a", "l", " ", "a", "n", "d", " ", "s",
        "p", "i", "r", "i", "t", "u", "a", "l", " ", "k", "i", "n", "g", "d", "o", "m", "s">>,
      \* The goal of evolution is the development of consciousness
      <<"T", "h", "e", " ", "g", "o", "a", "l", " ", "o", "f", " ", "e", "v", "o", "l", "u", "t",
        "i", "o", "n", " ", "i", "s", " ", "t", "h", "e", " ", "d", "e", "v", "e", "l", "o", "p",
        "m", "e", "n", "t", " ", "o", "f", " ", "c", "o", "n", "s", "c", "i", "o", "u", "s", "n",
        "e", "s", "s">>,
      \* Each ray represents a different aspect of divine will-to-good
      <<"E", "a", "c", "h", " ", "r", "a", "y", " ", "r", "e", "p", "r", "e", "s", "e", "n", "t",
        "s", " ", "a", " ", "d", "i", "f", "f", "e", "r", "e", "n", "t", " ", "a", "s", "p", "e",
        "c", "t", " ", "o", "f", " ", "d", "i", "v", "i", "n", "e", " ", "w", "i", "l", "l", "-",
        "t", "o", "-", "g", "o", "o", "d">>
    >>

----------------------------------------------------------------------------
(* create_triples.py *)

\* a character sequence as one string
RECURSIVE str_join(_)
str_join(s) == IF s = <<>> THEN "" ELSE Head(s) \o str_join(Tail(s))

\* str.replace(old, new) for one-character old and new
str_replace(s, old, new) == [i \in 1..Len(s) |-> IF s[i] = old THEN new ELSE s[i]]

\* str.upper of one character
upper_char(c) ==
    IF \E i \in 1..26 : LowerLetters[i] = c
    THEN UpperLetters[CHOOSE i \in 1..26 : LowerLetters[i] = c]
    ELSE c

\* str.capitalize: the first character in upper case, the rest in lower case
str_capitalize(s) ==
    [i \in 1..Len(s) |-> IF i = 1 THEN upper_char(s[i]) ELSE lower_char(s[i])]

\* ', '.join(keywords)
RECURSIVE join_comma(_)
join_comma(strs) ==
    IF strs = <<>> THEN ""
    ELSE IF Len(strs) = 1 THEN str_join(strs[1])
    ELSE str_join(strs[1]) \o ", " \o join_comma(Tail(strs))

\* str(frequency) of a number of hundredths: no trailing zero after the first decimal
float_str(h) ==
    ToString(h \div 100) \o "." \o ToString((h % 100) \div 10) \o
    (IF h % 10 = 0 THEN "" ELSE ToString(h % 10))

\* dict.items() of a dictionary that json.load read, whose keys were written
\* from the integers 1, 2, ...: the (key, value) pairs, the keys being strings
items(values) == [i \in 1..Len(values) |-> <<ToString(i), values[i]>>]

\* load_existing_data: json.load of 7rays_data.json
load_existing_data ==
    [rays |-> items(SEVEN_RAYS),
     planes |-> items(SEVEN_PLANES),
     relationships |-> [primary_rulerships |-> items(primary_rulerships)],
     color_mappings |-> [primary_triad |-> primary_triad]]

\* "for item in list: body", from the k-th item on, on the pair (entities, triples)
\* collected so far; each pass works on the lists the pass before it left
RECURSIVE for_each(_, _, _, _)
for_each(body(_, _), acc, list, k) ==
    IF k > Len(list) THEN acc
    ELSE CHOOSE result \in {for_each(body, next, list, k + 1) : next \in {body(acc, list[k])}} :
             TRUE

\* [e['id'] for e in entities]
entity_ids(ents) == {ents[i].id : i \in 1..Len(ents)}

\* entities.append(entity) under "if entity['id'] not in [e['id'] for e in entities]"
append_if_new(ents, entity) ==
    IF entity.id \notin entity_ids(ents) THEN Append(ents, entity) ELSE ents

\* the body of the loop over ray_data['keywords']
add_keyword(acc, entity_id, keyword) ==
    LET keyword_id == "Quality_" \o str_join(str_replace(keyword, " ", "_"))
    IN  [entities |-> append_if_new(acc.entities,
                                    [id |-> keyword_id,
                                     label |-> str_join(keyword),
                                     kind |-> "Quality",
                                     color |-> "#888888",
                                     description |-> "Spiritual quality: " \o str_join(keyword)]),
         triples |-> Append(acc.triples, <<entity_id, "embodies", keyword_id>>)]

\* the body of the loop over data['rays'].items()
add_ray(acc, item) ==
    LET ray_id == item[1]
        ray_data == item[2]
        entity_id == "Ray" \o ray_id
        entity == [id |-> entity_id,
                   label |-> "Ray " \o ray_id \o ": " \o ray_data.name,
                   kind |-> "Ray",
                   color |-> ray_data.color,
                   description |-> "Ray " \o ray_id \o " - " \o ray_data.name \o ": "
                                   \o ray_data.quality \o ". Keywords: "
                                   \o join_comma(ray_data.keywords)]
        properties == << <<entity_id, "hasName", ray_data.name>>,
                         <<entity_id, "hasQuality", ray_data.quality>>,
                         <<entity_id, "hasColor", ray_data.color>>,
                         <<entity_id, "hasPurpose", ray_data.purpose>>,
                         <<entity_id, "ruledBy", ray_data.planetary_ruler>>,
                         <<entity_id, "hasNote", ray_data.note>>,
                         <<entity_id, "hasElement", ray_data.element>> >>
    IN  for_each(LAMBDA a, keyword : add_keyword(a, entity_id, keyword),
                 [entities |-> Append(acc.entities, entity),
                  triples |-> acc.triples \o properties],
                 ray_data.keywords, 1)

\* the body of the loop over plane_data['alternate_names']
add_alternate_name(acc, entity_id, alt_name) ==
    LET alt_id == "Name_" \o str_join(str_replace(alt_name, " ", "_"))
    IN  [entities |-> append_if_new(acc.entities,
                                    [id |-> alt_id,
                                     label |-> str_join(alt_name),
                                     kind |-> "AlternateName",
                                     color |-> "#666666",
                                     description |-> "Alternate name for plane: "
                                                     \o str_join(alt_name)]),
         triples |-> Append(acc.triples, <<entity_id, "alsoKnownAs", alt_id>>)]

\* the body of the loop over data['planes'].items()
add_plane(acc, item) ==
    LET plane_id == item[1]
        plane_data == item[2]
        entity_id == "Plane" \o plane_id
        entity == [id |-> entity_id,
                   label |-> "Plane " \o plane_id \o ": " \o plane_data.name,
                   kind |-> "Plane",
                   color |-> plane_data.color,
                   description |-> "Plane " \o plane_id \o " - " \o plane_data.name \o ": "
                                   \o plane_data.consciousness_state \o ". "
                                   \o plane_data.description]
        properties == << <<entity_id, "hasName", plane_data.name>>,
                         <<entity_id, "hasConsciousness", plane_data.consciousness_state>>,
                         <<entity_id, "hasElement", plane_data.element>>,
                         <<entity_id, "hasColor", plane_data.color>>,
                         <<entity_id, "hasGeometry", plane_data.geometric_form>>,
                         <<entity_id, "hasFrequency", float_str(plane_data.frequency)>> >>
    IN  for_each(LAMBDA a, alt_name : add_alternate_name(a, entity_id, alt_name),
                 [entities |-> Append(acc.entities, entity),
                  triples |-> acc.triples \o properties],
                 plane_data.alternate_names, 1)

\* the body of the loop over plane_nums
add_rulership(acc, ray_id, plane_num) ==
    LET plane_id == "Plane" \o ToString(plane_num)
    IN  [entities |-> acc.entities,
         triples |-> acc.triples \o << <<ray_id, "primarily_governs", plane_id>>,
                                       <<plane_id, "primarily_ruled_by", ray_id>> >>]

\* the body of the loop over relationships_data['primary_rulerships'].items()
add_primary_rulerships(acc, item) ==
    LET ray_num == item[1]
        plane_nums == item[2]
        ray_id == "Ray" \o ray_num
    IN  for_each(LAMBDA a, plane_num : add_rulership(a, ray_id, plane_num), acc, plane_nums, 1)

\* the special fourth ray/plane entities and the fourth emphasis triples
add_fourth_emphasis(acc) ==
    [entities |-> acc.entities \o
        << [id |-> "Fourth_Bridge_Function",
            label |-> "Fourth Bridge Function",
            kind |-> "Function",
            color |-> "#00FF00",
            description |->
              "The bridge function between higher spiritual triad and lower quaternary"],
           [id |-> "Humanity",
            label |-> "Humanity (Fourth Kingdom)",
            kind |-> "Kingdom",
            color |-> "#FFD700",
            description |->
              "Humanity as the fourth kingdom, mediator between animal and spiritual realms"],
           [id |-> "Christ_Consciousness",
            label |-> "Christ Consciousness",
            kind |-> "Consciousness",
            color |-> "#00BFFF",
            description |->
              "Unity awareness and Christ consciousness on the buddhic plane"] >>,
     triples |-> acc.triples \o
        << <<"Ray4", "embodies", "Fourth_Bridge_Function">>,
           <<"Plane4", "embodies", "Fourth_Bridge_Function">>,
           <<"Ray4", "mediates_for", "Humanity">>,
           <<"Plane4", "enables", "Christ_Consciousness">>,
           <<"Humanity", "evolves_through", "Ray4">>,
           <<"Fourth_Bridge_Function", "harmonizes", "Conflict">> >>]

\* data['rays'][key]
dict_get(pairs, key) == pairs[CHOOSE i \in 1..Len(pairs) : pairs[i][1] = key][2]

\* the body of the loop over color_data['primary_triad'].items()
add_color(acc, rays, item) ==
    LET color_name == item.color_name
        ray_num == item.ray_num
        color_id == "Color_" \o str_join(str_capitalize(color_name))
    IN  [entities |-> append_if_new(acc.entities,
                                    [id |-> color_id,
                                     label |-> str_join(str_capitalize(color_name)),
                                     kind |-> "Color",
                                     color |-> dict_get(rays, ToString(ray_num)).color,
                                     description |-> "Primary color " \o str_join(color_name)
                                                     \o " associated with divine expression"]),
         triples |-> Append(acc.triples,
                            <<"Ray" \o ToString(ray_num), "manifests_as", color_id>>)]

\* relation_map.get(interaction_type, 'relates_to')
relation_map_get(interaction_type) ==
    CASE interaction_type = "primary_channel" -> "flows_through"
      [] interaction_type = "strong_influence" -> "strongly_influences"
      [] interaction_type = "moderate_interaction" -> "interacts_with"
      [] interaction_type = "subtle_resonance" -> "resonates_with"
      [] OTHER -> "relates_to"

\* add_dynamic_relationship with "strength >= 0.6"
add_dynamic_relationship_inclusive(acc, r) ==
    IF r.strength >= 600
    THEN [entities |-> acc.entities,
          triples |-> Append(acc.triples,
                             <<"Ray" \o ToString(r.ray), relation_map_get(r.interaction_type),
                               "Plane" \o ToString(r.plane)>>)]
    ELSE acc

\* the body of the loop over human_rels['relationships']
add_dynamic_relationship(acc, r) ==
    IF r.strength > 600
    THEN [entities |-> acc.entities,
          triples |-> Append(acc.triples,
                             <<"Ray" \o ToString(r.ray), relation_map_get(r.interaction_type),
                               "Plane" \o ToString(r.plane)>>)]
    ELSE acc

\* the try block without its except clause: nothing is returned when the file is absent
add_dynamic_relationships_uncaught(acc) ==
    IF files[export_filename("human")] = NoFile
    THEN [entities |-> <<>>, triples |-> <<>>]
    ELSE LET human_rels == json_load(files[export_filename("human")])
         IN  for_each(add_dynamic_relationship, acc, human_rels["relationships"], 1)

\* the try block: the human relationship export is read if it is there
add_dynamic_relationships(acc) ==
    IF files[export_filename("human")] = NoFile
    THEN acc
    ELSE LET human_rels == json_load(files[export_filename("human")])
         IN  for_each(add_dynamic_relationship, acc, human_rels["relationships"], 1)

\* enumerate that does not count
enumerate_no_count(list) == [i \in 1..Len(list) |-> <<0, list[i]>>]

\* enumerate(bailey_quotes)
enumerate(list) == [i \in 1..Len(list) |-> <<i - 1, list[i]>>]

\* the body of the loop over enumerate(bailey_quotes)
add_quote(acc, item) ==
    LET i == item[1]
        quote == item[2]
        quote_id == "Quote_" \o ToString(i + 1)
        entity == [id |-> quote_id,
                   label |-> "Bailey Quote " \o ToString(i + 1),
                   kind |-> "Teaching",
                   color |-> "#E6E6FA",
                   description |-> str_join(quote)]
        links ==
            (IF str_contains(str_lower(quote),
                             <<"f", "o", "u", "r", "t", "h", " ", "r", "a", "y">>)
             THEN << <<"Ray4", "described_by", quote_id>> >> ELSE <<>>)
            \o (IF str_contains(str_lower(quote), <<"b", "u", "d", "d", "h", "i", "c">>)
                THEN << <<"Plane4", "described_by", quote_id>> >> ELSE <<>>)
            \o (IF str_contains(str_lower(quote), <<"h", "u", "m", "a", "n", "i", "t", "y">>)
                THEN << <<"Humanity", "described_by", quote_id>> >> ELSE <<>>)
    IN  [entities |-> Append(acc.entities, entity),
         triples |-> acc.triples \o links]

\* create_entities_and_triples: the returned pair (entities, triples)
create_entities_and_triples ==
    LET data == load_existing_data
        with_rays == for_each(add_ray, [entities |-> <<>>, triples |-> <<>>], data.rays, 1)
        with_planes == for_each(add_plane, with_rays, data.planes, 1)
        with_rulerships == for_each(add_primary_rulerships, with_planes,
                                    data.relationships.primary_rulerships, 1)
        with_fourth == add_fourth_emphasis(with_rulerships)
        with_colors == for_each(LAMBDA a, item : add_color(a, data.rays, item), with_fourth,
                                data.color_mappings.primary_triad, 1)
        with_dynamic == add_dynamic_relationships(with_colors)
    IN  for_each(add_quote, with_dynamic, enumerate(bailey_quotes), 1)

\* what create_entities_and_triples prints: the except clause reports the absent file
NotFoundLine == "Relationship matrices not found, using basic relationships only"

create_entities_and_triples_prints ==
    IF files[export_filename("human")] = NoFile THEN <<NotFoundLine>> ELSE <<>>

----------------------------------------------------------------------------
(* create_data_files, train.py, train_quick.py and load_data of app.py, as   *)
(* far as rows and their order go.  The numbers in an embedding table are    *)
(* not kept: a table is its shape, and a vector is named by the table and    *)
(* the row it is.                                                            *)

NoLoad == [kind |-> "none"]

\* DataFrame.to_csv(index=False): the header and a line of values per row
to_csv(columns, rows) ==
    [header |-> columns,
     lines |-> [k \in 1..Len(rows) |-> [c \in 1..Len(columns) |-> rows[k][columns[c]]]]]

\* pd.read_csv: a record per line, its fields named by the header
read_csv(csv) ==
    [k \in 1..Len(csv.lines) |->
        [name \in {csv.header[c] : c \in 1..Len(csv.header)} |->
            csv.lines[k][CHOOSE c \in 1..Len(csv.header) : csv.header[c] = name]]]

\* pd.DataFrame(triples, columns=['head', 'relation', 'tail'])
triples_df(ts) == [k \in 1..Len(ts) |-> [head |-> ts[k][1], relation |-> ts[k][2], tail |-> ts[k][3]]]

\* sorted() of the labels that occur in the repository's triples
LabelOrder ==
    <<"#0066FF", "#00BFFF", "#00FF00", "#8000FF", "#8B4513", "#E6E6FA", "#FF0000", "#FF00FF",
      "#FF69B4", "#FF8000", "#FFD700", "#FFFF00", "#FFFFFF", "2.82", "3.3", "3.86", "4.52",
      "5.29", "6.19", "7.23", "Abstract and concrete thought", "Active Intelligence", "Air",
      "Astral Plane", "Atmic Plane", "Beauty, Art, Bridge-building, Mediation",
      "Buddhic Plane", "Ceremonial Order", "Christ_Consciousness", "Color_Blue", "Color_Red",
      "Color_Yellow", "Concrete Knowledge", "Conflict", "Creative intelligence, Adaptability",
      "DO", "Dense and etheric matter", "Devotion and Idealism",
      "Devotion, Idealism, Religious fervor", "Earth-Air", "Earth-Water",
      "Emotional consciousness, Desire", "Emotional/astral matter", "FA", "Fire", "Fire-Air",
      "Fourth_Bridge_Function", "Harmony through Conflict", "Heptagon", "Hexagon", "Humanity",
      "Inclusive love, Wisdom through experience",
      "Intuitional consciousness, Unity perception", "Jupiter", "LA", "Line", "Logoic Plane",
      "Logoic consciousness, Divine Will", "Love-Wisdom", "MI", "Mars/Neptune", "Mental Plane",
      "Mental matter", "Mercury", "Monadic Plane", "Monadic consciousness, Divine Love-Wisdom",
      "Name_Adi", "Name_Anupadaka", "Name_Christ_Consciousness", "Name_Dense", "Name_Desire",
      "Name_Divine", "Name_Emotional", "Name_Etheric-Physical", "Name_Intuitional",
      "Name_Kamic", "Name_Manasic", "Name_Mind", "Name_Nirvanic", "Name_Primordial",
      "Name_Spiritual", "Organization, Ritual, Magic, Transformation", "Pentagon",
      "Physical Plane", "Physical consciousness, Material awareness", "Plane1", "Plane2",
      "Plane3", "Plane4", "Plane5", "Plane6", "Plane7", "Point", "Pure Spirit",
      "Pure reason, Intuition", "Quality_Adaptability", "Quality_Analysis", "Quality_Art",
      "Quality_Beauty", "Quality_Bridge", "Quality_Ceremony", "Quality_Conflict",
      "Quality_Creativity", "Quality_Devotion", "Quality_Emotion", "Quality_Faith",
      "Quality_Harmony", "Quality_Healing", "Quality_Idealism", "Quality_Initiative",
      "Quality_Intelligence", "Quality_Intuition", "Quality_Knowledge", "Quality_Leadership",
      "Quality_Love", "Quality_Magic", "Quality_Manipulation", "Quality_Mediation",
      "Quality_Mental", "Quality_Order", "Quality_Organization", "Quality_Power",
      "Quality_Precision", "Quality_Purpose", "Quality_Religion", "Quality_Research",
      "Quality_Ritual", "Quality_Science", "Quality_Teaching", "Quality_Transformation",
      "Quality_Will", "Quality_Wisdom", "Quote_1", "Quote_2", "Quote_3", "Quote_4", "RE",
      "Ray1", "Ray2", "Ray3", "Ray4", "Ray5", "Ray6", "Ray7", "SI", "SOL", "Saturn",
      "Science, Research, Precision", "Spirit-Matter", "Spiritual Fire",
      "Spiritual will, Atmic consciousness", "Square", "To harmonize and beautify",
      "To idealize and devote", "To initiate and destroy", "To know and understand",
      "To manipulate matter and energy", "To organize and ritualize", "To teach and heal",
      "Triangle", "Uranus", "Venus", "Vulcan (hidden)", "Water", "Water-Fire", "Will or Power",
      "Will to manifest, Divine Purpose, Leadership">>

\* the labels of a set in sorted order
sorted_labels(labels) == SelectSeq(LabelOrder, LAMBDA l : l \in labels)

\* TriplesFactory.from_labeled_triples: the entities are the heads and tails of the
\* triples, numbered from 0 in sorted order
from_labeled_triples(edges) ==
    LET labels == {edges[k].head : k \in 1..Len(edges)} \cup {edges[k].tail : k \in 1..Len(edges)}
        ordered == sorted_labels(labels)
    IN  [entity_to_id |-> [l \in labels |-> (CHOOSE k \in 1..Len(ordered) : ordered[k] = l) - 1],
         num_entities |-> Len(ordered)]

\* {v: k for k, v in entity_to_id.items()}
invert(entity_to_id) ==
    [idx \in {entity_to_id[e] : e \in DOMAIN entity_to_id} |->
        CHOOSE e \in DOMAIN entity_to_id :
            /\ entity_to_id[e] = idx
            /\ TRUE]

\* the files a trainer that went through PyKEEN saves: one row per entity of the factory
pykeen_files(edges, embedding_dim) ==
    LET tf == from_labeled_triples(edges)
    IN  [npy |-> [shape |-> <<tf.num_entities, embedding_dim>>],
         pkl |-> [entity_to_id |-> tf.entity_to_id, id_to_entity |-> invert(tf.entity_to_id)]]

\* {entity: idx for idx, entity in enumerate(entities_df['id'])}: a later row wins
enumerate_ids(nodes) ==
    [e \in {nodes[k].id : k \in 1..Len(nodes)} |->
        (CHOOSE k \in 1..Len(nodes) :
            nodes[k].id = e /\ \A m \in 1..Len(nodes) : nodes[m].id = e => m <= k) - 1]

\* create_dummy_embeddings: one random row per row of data/nodes.csv
create_dummy_embeddings(nodes) ==
    [npy |-> [shape |-> <<Len(nodes), 64>>],
     pkl |-> [entity_to_id |-> enumerate_ids(nodes),
              id_to_entity |-> invert(enumerate_ids(nodes))]]

\* load_data on the pipeline's files; the sum of two tables in create_fused_embeddings
\* needs as many rows in one as in the other, or a single row in one of them
load_data_from(dir) ==
    IF \E f \in PipelineFiles \ {"data/edges.csv"} : dir[f] = NoFile
    THEN [kind |-> "exception", type |-> "FileNotFoundError"]
    ELSE LET nodes == read_csv(dir["data/nodes.csv"])
             kg_rows == dir["kg_embeddings.npy"].shape[1]
             kg == [k \in 1..kg_rows |-> [table |-> "kg_embeddings", row |-> k]]
             text == [k \in 1..Len(nodes) |-> [table |-> "text_embeddings", row |-> k]]
             rows == max(kg_rows, Len(nodes))
         IN  IF kg_rows # Len(nodes) /\ kg_rows # 1 /\ Len(nodes) # 1
             THEN [kind |-> "exception", type |-> "ValueError"]
             ELSE [kind |-> "loaded",
                   entities_df |-> nodes,
                   kg_embeddings |-> kg,
                   entity_mapping |-> dir["entity_mapping.pkl"],
                   text_embeddings |-> text,
                   fused_embeddings |->
                       [k \in 1..rows |->
                           [alpha |-> 6,
                            kg |-> kg[IF kg_rows = 1 THEN 1 ELSE k],
                            text |-> text[IF Len(nodes) = 1 THEN 1 ELSE k]]]]

----------------------------------------------------------------------------
(* The scorer as a state machine *)

StrengthGrid ==
    {s \in 0..1000 : s % GridStep = 0 \/ s % 200 \in {0, 1, 199}}

NoBand == [lo |-> 0, hi |-> 0, lo_type |-> "", hi_type |-> ""]

\* the analyzer constructed, nothing computed yet
InitScorerVars ==
    /\ rel = NoRel
    /\ band = NoBand
    /\ matrix = <<>>
    /\ files = [f \in FileNames \cup PipelineFiles |-> NoFile]
    /\ imported = NoFile
    /\ harmony = NoHarmony
    /\ affinity = NoAffinity
    /\ score_locals = NoLocals
    /\ building = NoBuild
    /\ reading = NoRead
    /\ reads = <<>>
    /\ setup = NoSetup

\* app.py not started: its globals are None
InitAppIdle ==
    /\ entities_df = <<>>
    /\ kg_embeddings = <<>>
    /\ text_embeddings = <<>>
    /\ fused_embeddings = <<>>
    /\ requested_alpha = 6
    /\ out = NoOut

\* create_triples.py not run yet
InitBuilderIdle ==
    /\ entities = <<>>
    /\ triples = <<>>
    /\ printed = <<>>
    /\ loaded = NoLoad

InitScore == InitScorerVars /\ InitAppIdle /\ InitBuilderIdle

\* one call of calculate_dynamic_relationship
Score ==
    \E ray_num \in Rays, plane_num \in Planes, context \in ContextArgs, cycle_phase \in CyclePhases :
        /\ rel' = calculate_dynamic_relationship(ray_num, plane_num, context, cycle_phase)
        /\ score_locals' = calculate_dynamic_relationship_locals(ray_num, plane_num, context,
                                                                 cycle_phase)
        /\ UNCHANGED <<band, matrix, files, imported, harmony, affinity, appVars, builderVars, pipelineVars, threadVars, setupVars>>

\* two calls of _determine_interaction_type, on strengths lo <= hi
Classify ==
    \E lo \in StrengthGrid, hi \in StrengthGrid :
        /\ lo <= hi
        /\ band' = [lo |-> lo, hi |-> hi,
                    lo_type |-> _determine_interaction_type(1, 1, lo),
                    hi_type |-> _determine_interaction_type(1, 1, hi)]
        /\ UNCHANGED <<rel, matrix, files, imported, harmony, affinity, score_locals, appVars, builderVars, pipelineVars, threadVars, setupVars>>

NextScore == Score

SpecScore == InitScore /\ [][NextScore]_vars

\* the integers _get_base_affinity is called with: the rays and planes and the
\* numbers next to them (the function tests no argument)
AffinityArgs == 0..10

\* one call of _get_base_affinity
BaseAffinity ==
    \E ray_num \in AffinityArgs, plane_num \in AffinityArgs :
        /\ affinity' = [ray_num |-> ray_num, plane_num |-> plane_num,
                        value |-> _get_base_affinity(ray_num, plane_num)]
        /\ UNCHANGED <<rel, band, matrix, files, imported, harmony, score_locals, appVars, builderVars, pipelineVars, threadVars, setupVars>>

NextAffinity == BaseAffinity

SpecAffinity == InitScore /\ [][NextAffinity]_vars

NextClassify == Classify

SpecClassify == InitScore /\ [][NextClassify]_vars

\* one call of generate_full_relationship_matrix
Matrix ==
    \E context \in ContextArgs :
        /\ matrix' = generate_full_relationship_matrix(context)
        /\ UNCHANGED <<rel, band, files, imported, harmony, affinity, score_locals, appVars, builderVars, pipelineVars, threadVars, setupVars>>

\* one call of export_relationships with the default file name
Export ==
    \E context \in ContextArgs :
        /\ files' = [files EXCEPT ![export_filename(context)] =
                                       json_dump_output(export_output(context))]
        /\ UNCHANGED <<rel, band, matrix, imported, harmony, affinity, score_locals, appVars, builderVars, pipelineVars, threadVars, setupVars>>

\* json.load of an exported relationship file
Import ==
    \E f \in FileNames :
        /\ files[f] # NoFile
        /\ imported' = json_load(files[f])
        /\ UNCHANGED <<rel, band, matrix, files, harmony, affinity, score_locals, appVars, builderVars, pipelineVars, threadVars, setupVars>>

NextMatrix == Matrix \/ Export \/ Import

SpecMatrix == InitScore /\ [][NextMatrix]_vars

----------------------------------------------------------------------------
(* The application as a state machine *)

\* the rows data/nodes.csv can hold: label and kind of the first rows
EntityRows ==
    <<[label |-> <<"A", "b", "z">>, kind |-> "Ray"],
      [label |-> <<"b", " ", "c">>, kind |-> "Plane"],
      [label |-> <<"z">>, kind |-> "Quality"],
      [label |-> <<"d">>, kind |-> "Color"],
      [label |-> <<"e">>, kind |-> "Teaching"]>>

\* rows kg_embeddings.npy can hold, by number of columns
KgRows(d) ==
    IF d = 2 THEN {<<3, 4>>, <<-6, -8>>}
    ELSE {<<0, 3, 4>>, <<2, 0, 0>>}

\* vectors the text encoder returns (normalize_embeddings=True), by number of columns
TextRowSeq(d) ==
    IF d = 2 THEN <<<<12, 16>>, <<20, 0>>>>
    ELSE <<<<12, 16, 0>>, <<0, 12, 16>>>>

TextRows(d) == {TextRowSeq(d)[n] : n \in 1..Len(TextRowSeq(d))}

\* st_model.encode(descriptions): the encoder is a function of the description, and
\* the descriptions of EntityRows are fixed, so the text vector of a row is fixed
encode_descriptions(d) ==
    [i \in 1..NumEntities |-> TextRowSeq(d)[((i - 1) % Len(TextRowSeq(d))) + 1]]

\* (graph dimension, text dimension)
AllDims == {<<2, 2>>, <<2, 3>>, <<3, 2>>, <<3, 3>>}

EqualDims == {<<2, 2>>}

\* what the search box and the two arithmetic boxes are filled with
SearchQueries == {<<>>, <<" ">>, <<"b">>, <<"C">>, <<"Z">>, <<"q">>}

ArithLabels == {<<>>, <<"A", "B">>, <<"C">>, <<"q">>, <<"R", "a", "y", " ", "9", "9">>}

\* top_k of find_similar_entities: the default 8 and a smaller value
TopKs == {2, 8}

\* load_data: the globals after the files are read and the first fusion is made
load_data(dims) ==
    /\ entities_df = SubSeq(EntityRows, 1, NumEntities)
    /\ \E d \in dims :
         /\ kg_embeddings \in [1..NumEntities -> KgRows(d[1])]
         /\ text_embeddings = encode_descriptions(d[2])
    /\ fused_embeddings = create_fused_embeddings(6)
    /\ requested_alpha = 6
    /\ out = NoOut

InitFuse == InitScorerVars /\ load_data(AllDims) /\ InitBuilderIdle

InitQuery == InitScorerVars /\ load_data(EqualDims) /\ InitBuilderIdle

\* one click of "Update Visualization" with a fusion weight of the given set
\* (an event is handled once the outputs of the previous one are rendered)
create_visualization(alphas) ==
    \E alpha \in alphas :
        /\ out = NoOut
        /\ fused_embeddings' = IF alpha # 6 THEN create_fused_embeddings(alpha)
                               ELSE fused_embeddings
        /\ requested_alpha' = alpha
        /\ UNCHANGED <<entities_df, kg_embeddings, text_embeddings, out, scorerVars, builderVars, pipelineVars, threadVars, setupVars>>

Visualize == create_visualization(AlphaSlider)

\* the weights used while queries are checked: text only, half, the default, graph only
VisualizeCoarse == create_visualization({0, 5, 6, 10})

\* the ranking both handlers end with: similarities, argsort, slice, result rows
rank_out(fn, args, query_idx, query_emb, top_k, first_value, result) ==
    IF Len(query_emb) # shape1(fused_embeddings)
    THEN result = [kind |-> "exception", fn |-> fn, args |-> args, type |-> "ValueError"]
    ELSE LET similarities == cosine_similarity(query_emb, fused_embeddings)
         IN  \E order \in argsort_desc(similarities) :
                result = [kind |-> "table",
                          fn |-> fn,
                          args |-> args,
                          op_text |-> first_value,
                          query_idx |-> query_idx,
                          query_emb |-> query_emb,
                          top_k |-> top_k,
                          similarities |-> similarities,
                          top_indices |-> take(order, top_k),
                          rows |-> result_rows(fn, take(order, top_k), similarities)]

\* the number of output components a handler is wired to by its click event
wired_outputs(fn) == IF fn = "ray_plane_arithmetic" THEN 2 ELSE 1

\* the values of a return statement: a string alone on the message paths, the data
\* frame alone from find_similar_entities, a tuple of the operation text and the
\* data frame at the end of ray_plane_arithmetic
returned_values(result) ==
    IF result.kind = "message" THEN <<result.text>>
    ELSE IF result.fn = "ray_plane_arithmetic"
    THEN <<<<"Vector arithmetic: ">> \o result.op_text, result.rows>>
    ELSE <<result.rows>>

\* one call of find_similar_entities
Search ==
    \E query \in SearchQueries, top_k \in TopKs :
        /\ out = NoOut
        /\ IF str_strip(query) = <<>>
           THEN out' = [kind |-> "message", fn |-> "find_similar_entities",
                        args |-> <<query, top_k>>,
                        text |-> <<"Please enter a search query.">>]
           ELSE LET query_lower == str_lower(query)
                    matches == label_matches(query_lower)
                IN  IF Cardinality(matches) > 0
                    THEN rank_out("find_similar_entities", <<query, top_k>>, first_index(matches),
                                  fused_embeddings[first_index(matches)], top_k, <<>>, out')
                    ELSE \E encoded \in TextRows(shape1(text_embeddings)) :
                            rank_out("find_similar_entities", <<query, top_k>>, 0, encoded,
                                     top_k, <<>>, out')
        /\ UNCHANGED <<entities_df, kg_embeddings, text_embeddings, fused_embeddings,
                       requested_alpha, scorerVars, builderVars, pipelineVars, threadVars, setupVars>>

\* one call of ray_plane_arithmetic
Arithmetic ==
    \E ray_concept \in ArithLabels, plane_concept \in ArithLabels, operation \in Operations :
        LET ray_idx == find_entity_embedding(ray_concept)
            plane_idx == find_entity_embedding(plane_concept)
        IN  /\ out = NoOut
            /\ IF ray_idx = 0 \/ plane_idx = 0
               THEN out' = [kind |-> "message", fn |-> "ray_plane_arithmetic",
                            args |-> <<ray_concept, operation, plane_concept>>,
                            text |-> <<"Could not find entities for '", ray_concept,
                                       "' or '", plane_concept, "'">>]
               ELSE rank_out("ray_plane_arithmetic",
                             <<ray_concept, operation, plane_concept>>, 0,
                             arithmetic_emb(fused_embeddings[ray_idx], operation,
                                            fused_embeddings[plane_idx]),
                             8,
                             arithmetic_op_text(entities_df[ray_idx].label, operation,
                                                entities_df[plane_idx].label),
                             out')
            /\ UNCHANGED <<entities_df, kg_embeddings, text_embeddings, fused_embeddings,
                           requested_alpha, scorerVars, builderVars, pipelineVars, threadVars, setupVars>>

\* the value a handler returned is written to its output components
Render ==
    /\ out # NoOut
    /\ out' = NoOut
    /\ UNCHANGED <<entities_df, kg_embeddings, text_embeddings, fused_embeddings,
                   requested_alpha, scorerVars, builderVars, pipelineVars, threadVars, setupVars>>

\* searches on an app loaded with graph and text vectors of any two widths
NextDims == Search \/ Render

SpecDims == InitFuse /\ [][NextDims]_vars

NextFuse == Visualize

SpecFuse == InitFuse /\ [][NextFuse]_vars

NextQuery == VisualizeCoarse \/ Search \/ Arithmetic \/ Render

SpecQuery == InitQuery /\ [][NextQuery]_vars

----------------------------------------------------------------------------
(* The graph builder as a state machine *)

\* relationship lists of a ray_plane_relationships_human.json that another tool or
\* an editor wrote: (ray, plane, strength, interaction type)
OtherRelationships ==
    {<< <<1, 1, 600, "strong_influence">>, <<2, 3, 601, "moderate_interaction">> >>,
     << <<4, 4, 1000, "subtle_resonance">>, <<7, 1, 700, "minimal_connection">>,
        <<3, 3, 200, "primary_channel">> >>}

\* the export dictionary with the given relationship list
other_output(rels) ==
    [context |-> "human",
     total_relationships |-> Len(rels),
     relationships |-> [k \in 1..Len(rels) |->
                           [ray |-> rels[k][1], plane |-> rels[k][2], strength |-> rels[k][3],
                            context |-> "human", cycle_phase |-> "balanced",
                            interaction_type |-> rels[k][4]]],
     metadata |-> export_output("human").metadata]

\* a relationship file that export_relationships did not write is put in place
PlaceExport ==
    \E rels \in OtherRelationships :
        /\ files' = [files EXCEPT ![export_filename("human")] =
                                       json_dump_output(other_output(rels))]
        /\ UNCHANGED <<rel, band, matrix, imported, harmony, affinity, score_locals, appVars, builderVars, pipelineVars, threadVars, setupVars>>

\* one run of create_entities_and_triples in the working directory
Build ==
    /\ entities' = create_entities_and_triples.entities
    /\ triples' = create_entities_and_triples.triples
    /\ printed' = create_entities_and_triples_prints
    /\ UNCHANGED <<scorerVars, appVars, pipelineVars, threadVars, setupVars>>

\* the relationship exports come and the builder runs, in any order
NextBuild == Export \/ PlaceExport \/ Build

SpecBuild == InitScore /\ [][NextBuild]_vars

----------------------------------------------------------------------------
(* The pipeline as a state machine: create_triples.py, a trainer, app.py *)

\* relationship_analyzer.py run as a script: main exports three contexts
AnalyzerMain ==
    /\ files' = [f \in DOMAIN files |->
                    IF \E context \in {"human", "spiritual", "animal"} :
                           f = export_filename(context)
                    THEN json_dump_output(export_output(
                             CHOOSE context \in {"human", "spiritual", "animal"} :
                                 f = export_filename(context)))
                    ELSE files[f]]
    /\ UNCHANGED <<rel, band, matrix, imported, harmony, affinity, score_locals, appVars, builderVars, pipelineVars, threadVars, setupVars>>

\* create_data_files: the builder runs and data/nodes.csv and data/edges.csv are written
\* (the weight column of edges.csv, which no trainer reads, is left out)
CreateDataFiles ==
    /\ entities' = create_entities_and_triples.entities
    /\ triples' = create_entities_and_triples.triples
    /\ printed' = create_entities_and_triples_prints
    /\ files' = [files EXCEPT
                    !["data/nodes.csv"] =
                        to_csv(<<"id", "label", "kind", "color", "description">>,
                               create_entities_and_triples.entities),
                    !["data/edges.csv"] =
                        to_csv(<<"head", "relation", "tail">>,
                               triples_df(create_entities_and_triples.triples))]
    /\ UNCHANGED <<rel, band, matrix, imported, harmony, affinity, score_locals, appVars, pipelineVars, threadVars, setupVars>>

\* train.py: train_kg_embeddings, run once data/edges.csv is there
Train ==
    /\ files["data/edges.csv"] # NoFile
    /\ LET saved == pykeen_files(read_csv(files["data/edges.csv"]), 128)
       IN  files' = [files EXCEPT !["kg_embeddings.npy"] = saved.npy,
                                  !["entity_mapping.pkl"] = saved.pkl]
    /\ UNCHANGED <<rel, band, matrix, imported, harmony, affinity, score_locals, appVars, builderVars, pipelineVars, threadVars, setupVars>>

\* train_quick.py: train_quick_embeddings, with PyKEEN installed or not
TrainQuick ==
    \E pykeen_available \in BOOLEAN :
        /\ files["data/edges.csv"] # NoFile
        /\ LET saved == IF pykeen_available
                        THEN pykeen_files(read_csv(files["data/edges.csv"]), 64)
                        ELSE create_dummy_embeddings(read_csv(files["data/nodes.csv"]))
           IN  files' = [files EXCEPT !["kg_embeddings.npy"] = saved.npy,
                                      !["entity_mapping.pkl"] = saved.pkl]
        /\ UNCHANGED <<rel, band, matrix, imported, harmony, affinity, score_locals, appVars, builderVars, pipelineVars, threadVars, setupVars>>

\* app.py started in the working directory: load_data
LoadData ==
    /\ loaded' = load_data_from(files)
    /\ UNCHANGED <<scorerVars, appVars, builderVars, threadVars, setupVars>>

NextPipeline == AnalyzerMain \/ PlaceExport \/ CreateDataFiles \/ Train \/ TrainQuick \/ LoadData

SpecPipeline == InitScore /\ [][NextPipeline]_vars

----------------------------------------------------------------------------
(* Numeric edge cases: a zero plane frequency, a graph row of zero length *)

\* the planes of a 7rays_data.json: the repository's, and one with a frequency of 0
PlanesTables == {SEVEN_PLANES, [SEVEN_PLANES EXCEPT ![7].frequency = 0]}

\* load_data on a kg_embeddings.npy in which rows can be all zero
InitZero ==
    /\ InitScorerVars
    /\ InitBuilderIdle
    /\ entities_df = SubSeq(EntityRows, 1, NumEntities)
    /\ kg_embeddings \in [1..NumEntities -> {<<3, 4>>, <<0, 0>>}]
    /\ text_embeddings = encode_descriptions(2)
    /\ fused_embeddings = create_fused_embeddings(6)
    /\ requested_alpha = 6
    /\ out = NoOut

\* one call of _calculate_frequency_harmony
Harmony ==
    \E planes \in PlanesTables, ray_num \in Rays, plane_num \in {7} :
        /\ harmony' = _calculate_frequency_harmony(planes, ray_num, plane_num)
        /\ UNCHANGED <<rel, band, matrix, files, imported, affinity, score_locals, appVars, builderVars, pipelineVars, threadVars, setupVars>>

NextZero == VisualizeCoarse \/ Harmony

SpecZero == InitZero /\ [][NextZero]_vars

----------------------------------------------------------------------------
(* The handlers of app.py run in threads: a step is what a handler does     *)
(* between two accesses to the global fused_embeddings.                     *)

\* a write in place of the first row of the table, in place of the assignment
store_fused_in_place(old, new) == [old EXCEPT ![1] = new[1]]

\* fused_embeddings = <the table create_fused_embeddings returned>
store_fused(old, new) == new

\* the queries made while the table is rebuilt: all of them name an entity
ThreadQueries == {<<"b">>}

ThreadRays == {<<"A", "B">>, <<"C">>}

ThreadPlanes == {<<"C">>}

InitThreads == InitQuery

\* create_visualization up to the return of create_fused_embeddings
VisualizeCompute ==
    \E alpha \in {6, 10} :
        /\ building = NoBuild
        /\ requested_alpha' = alpha
        /\ building' = IF alpha # 6
                       THEN [alpha |-> alpha, table |-> create_fused_embeddings(alpha)]
                       ELSE NoBuild
        /\ UNCHANGED <<entities_df, kg_embeddings, text_embeddings, fused_embeddings, out,
                       scorerVars, builderVars, pipelineVars, reading, reads, setupVars>>

\* create_visualization: the assignment to the global
VisualizeStore ==
    /\ building # NoBuild
    /\ fused_embeddings' = store_fused(fused_embeddings, building.table)
    /\ building' = NoBuild
    /\ UNCHANGED <<entities_df, kg_embeddings, text_embeddings, requested_alpha, out,
                   scorerVars, builderVars, pipelineVars, reading, reads, setupVars>>

\* find_similar_entities up to query_emb = fused_embeddings[query_idx:query_idx+1]
SearchRead ==
    \E query \in ThreadQueries :
        LET matches == label_matches(str_lower(query))
        IN  /\ reading = NoRead /\ out = NoOut
            /\ Cardinality(matches) > 0
            /\ reading' = [fn |-> "find_similar_entities", args |-> <<query, 8>>,
                           query_idx |-> first_index(matches),
                           embs |-> <<fused_embeddings[first_index(matches)]>>]
            /\ reads' = <<fused_embeddings>>
            /\ UNCHANGED <<appVars, scorerVars, builderVars, pipelineVars, building, setupVars>>

\* ray_plane_arithmetic up to the return of find_entity_embedding(ray_concept)
ArithmeticReadRay ==
    \E ray_concept \in ThreadRays, plane_concept \in ThreadPlanes, operation \in Operations :
        /\ reading = NoRead /\ out = NoOut
        /\ find_entity_embedding(ray_concept) # 0
        /\ reading' = [fn |-> "ray_plane_arithmetic",
                       args |-> <<ray_concept, operation, plane_concept>>,
                       query_idx |-> 0,
                       embs |-> <<fused_embeddings[find_entity_embedding(ray_concept)]>>]
        /\ reads' = <<fused_embeddings>>
        /\ UNCHANGED <<appVars, scorerVars, builderVars, pipelineVars, building, setupVars>>

\* ray_plane_arithmetic: find_entity_embedding(plane_concept)
ArithmeticReadPlane ==
    /\ reading.fn = "ray_plane_arithmetic" /\ Len(reading.embs) = 1
    /\ find_entity_embedding(reading.args[3]) # 0
    /\ reading' = [reading EXCEPT
                      !.embs = Append(@, fused_embeddings[find_entity_embedding(reading.args[3])])]
    /\ reads' = Append(reads, fused_embeddings)
    /\ UNCHANGED <<appVars, scorerVars, builderVars, pipelineVars, building, setupVars>>

\* the rest of either handler: cosine_similarity against the global, the ranking, the rows
Rank ==
    /\ \/ reading.fn = "find_similar_entities"
       \/ reading.fn = "ray_plane_arithmetic" /\ Len(reading.embs) = 2
    /\ IF reading.fn = "find_similar_entities"
       THEN rank_out(reading.fn, reading.args, reading.query_idx, reading.embs[1], 8, <<>>, out')
       ELSE rank_out(reading.fn, reading.args, 0,
                     arithmetic_emb(reading.embs[1], reading.args[2], reading.embs[2]), 8,
                     arithmetic_op_text(entities_df[find_entity_embedding(reading.args[1])].label,
                                        reading.args[2],
                                        entities_df[find_entity_embedding(reading.args[3])].label),
                     out')
    /\ reading' = NoRead
    /\ reads' = Append(reads, fused_embeddings)
    /\ UNCHANGED <<entities_df, kg_embeddings, text_embeddings, fused_embeddings, requested_alpha,
                   scorerVars, builderVars, pipelineVars, building, setupVars>>

\* the outputs of a query are rendered; the record of its reads is dropped with them
RenderQuery ==
    /\ out # NoOut
    /\ out' = NoOut
    /\ reads' = <<>>
    /\ UNCHANGED <<entities_df, kg_embeddings, text_embeddings, fused_embeddings, requested_alpha,
                   scorerVars, builderVars, pipelineVars, building, reading, setupVars>>

NextThreads ==
    VisualizeCompute \/ VisualizeStore \/ SearchRead \/ ArithmeticReadRay
        \/ ArithmeticReadPlane \/ Rank \/ RenderQuery

SpecThreads == InitThreads /\ [][NextThreads]_vars

----------------------------------------------------------------------------
(* setup.py as a state machine: main runs two commands through run_command   *)

\* the (command, description) pairs main passes to run_command, in its order
SetupSteps ==
    <<[cmd |-> "python create_triples.py", description |-> "Creating knowledge graph triples"],
      [cmd |-> "python train.py", description |-> "Training knowledge graph embeddings"]>>

\* exit statuses of a command, and what it wrote to a captured stream
ReturnCodes == {0, 1, 2}

Captured == {"", "text"}

\* subprocess.run without check=True: no exit status raises
completed_unchecked(returncode) == TRUE

\* subprocess.run(..., check=True) returns for exit status 0 and raises
\* CalledProcessError for any other
completed(returncode) == returncode = 0

\* the lines run_command prints once the command has ended
run_command_prints(description, returncode, stdout, stderr) ==
    IF completed(returncode)
    THEN <<"[Success] " \o description \o " completed successfully">>
         \o (IF stdout # "" THEN <<stdout>> ELSE <<>>)
    ELSE <<"[Error] " \o description \o " failed">>
         \o (IF stdout # "" THEN <<"STDOUT: " \o stdout>> ELSE <<>>)
         \o (IF stderr # "" THEN <<"STDERR: " \o stderr>> ELSE <<>>)

CompleteLine == "[Complete] Setup complete! The Seven Rays Vector Space is ready to explore."

\* __main__ calls main, which makes the data directory if it is not there
SetupMain ==
    \E data_exists \in BOOLEAN :
        /\ setup = NoSetup
        /\ setup' = [pc |-> "run", step |-> 1, made_dir |-> ~data_exists, started |-> <<>>,
                     results |-> <<>>, log |-> <<>>, returned |-> "none", status |-> "running"]
        /\ UNCHANGED <<scorerVars, appVars, builderVars, pipelineVars, threadVars>>

\* run_command up to the start of the command
SetupRun ==
    /\ setup.pc = "run"
    /\ setup' = [setup EXCEPT
                    !.pc = "wait",
                    !.started = Append(@, SetupSteps[setup.step].cmd),
                    !.log = Append(@, "[Running] " \o SetupSteps[setup.step].description \o "...")]
    /\ UNCHANGED <<scorerVars, appVars, builderVars, pipelineVars, threadVars>>

\* the command ends; run_command prints and returns, and main goes on or returns False
SetupFinish ==
    \E returncode \in ReturnCodes, stdout \in Captured, stderr \in Captured :
        /\ setup.pc = "wait"
        /\ setup' = [setup EXCEPT
                        !.results = Append(@, returncode),
                        !.log = @ \o run_command_prints(SetupSteps[setup.step].description,
                                                        returncode, stdout, stderr),
                        !.pc = IF ~completed(returncode) THEN "returned"
                               ELSE IF setup.step < Len(SetupSteps) THEN "run"
                               ELSE "ready",
                        !.step = IF completed(returncode) /\ setup.step < Len(SetupSteps)
                                 THEN @ + 1 ELSE @,
                        !.returned = IF ~completed(returncode) THEN "False" ELSE @]
        /\ UNCHANGED <<scorerVars, appVars, builderVars, pipelineVars, threadVars>>

\* both commands have succeeded: main prints the two lines and returns True
SetupReady ==
    /\ setup.pc = "ready"
    /\ setup' = [setup EXCEPT
                    !.pc = "returned",
                    !.log = @ \o <<"[Ready] Ready to launch the Gradio app!", "Run: python app.py">>,
                    !.returned = "True"]
    /\ UNCHANGED <<scorerVars, appVars, builderVars, pipelineVars, threadVars>>

\* __main__ after main: sys.exit(1), or the completion line and the end of the script
SetupExit ==
    /\ setup.pc = "returned"
    /\ setup' = IF setup.returned = "False"
                THEN [setup EXCEPT !.pc = "exited", !.status = "1"]
                ELSE [setup EXCEPT !.pc = "exited", !.status = "0",
                                   !.log = Append(@, CompleteLine)]
    /\ UNCHANGED <<scorerVars, appVars, builderVars, pipelineVars, threadVars>>

NextSetup == SetupMain \/ SetupRun \/ SetupFinish \/ SetupReady \/ SetupExit

SpecSetup == InitScore /\ [][NextSetup]_vars

----------------------------------------------------------------------------
(* Properties of the application *)

\* C2: after any sequence of visualization updates the fused table is the
\* fusion for the most recently requested weight.
C2_FusedTableFollowsRequestedAlpha ==
    fused_embeddings = create_fused_embeddings(requested_alpha)

RECURSIVE SumSquares(_, _)
SumSquares(v, j) == IF j > Len(v) THEN 0 ELSE v[j] * v[j] + SumSquares(v, j + 1)

\* f is the table alpha * normalized graph row + (1 - alpha) * text row on the
\* first min(graph_dim, text_dim) columns (1.0 is 200 in f, 20 in a text row)
IsFusion(f, alpha) ==
    LET n_cols == IF Len(kg_embeddings[1]) < Len(text_embeddings[1])
                  THEN Len(kg_embeddings[1]) ELSE Len(text_embeddings[1])
    IN  /\ Len(f) = Len(kg_embeddings)
        /\ \A i \in 1..Len(f) :
             /\ Len(f[i]) = n_cols
             /\ \E n \in 1..SumSquares(kg_embeddings[i], 1) :
                  /\ n * n = SumSquares(kg_embeddings[i], 1)
                  /\ \A j \in 1..n_cols :
                       f[i][j] * n = alpha * 20 * kg_embeddings[i][j]
                                     + (10 - alpha) * text_embeddings[i][j] * n

IsOne(sim) == sim.num = sim.den

\* the result lists min(k, N) distinct entities, no entity left out is more
\* similar than a listed one, and similarity does not increase down the list
IsTopK(o) ==
    LET n == Len(o.top_indices)
    IN  /\ n = (IF o.top_k < Len(entities_df) THEN o.top_k ELSE Len(entities_df))
        /\ Len(o.rows) = n
        /\ \A a \in 1..n : o.top_indices[a] \in 1..Len(entities_df)
        /\ \A a, b \in 1..n : o.top_indices[a] = o.top_indices[b] => a = b
        /\ \A a, b \in 1..n :
             a < b => ~ sim_gt(o.similarities[o.top_indices[b]], o.similarities[o.top_indices[a]])
        /\ \A a \in 1..n : \A i \in 1..Len(entities_df) :
             (\A b \in 1..n : o.top_indices[b] # i)
                 => ~ sim_gt(o.similarities[i], o.similarities[o.top_indices[a]])
        /\ \A i \in 1..Len(entities_df) :
             o.similarities[i] = cosine_one(o.query_emb, fused_embeddings[i])
        /\ \A a \in 1..n :
             /\ o.rows[a].Entity = entities_df[o.top_indices[a]].label
             /\ o.rows[a].score = o.similarities[o.top_indices[a]]

\* C7 as stated: min(k, N) distinct entities in non-increasing order of
\* similarity, and the entity whose row is the query vector is ranked first
\* when its similarity to itself is 1.0.
C7_OwnRowRankedFirst ==
    out.kind = "table" =>
        /\ IsTopK(out)
        /\ (out.query_idx # 0 /\ IsOne(out.similarities[out.query_idx]))
              => out.top_indices[1] = out.query_idx

\* C7 amended: min(k, N) distinct entities in non-increasing order of
\* similarity; when the query vector is a row with similarity 1.0 to itself,
\* the first-ranked entity has similarity 1.0 too, and it is that row's entity
\* whenever no other row is as similar.
C7_RankedByCosine ==
    out.kind = "table" =>
        /\ IsTopK(out)
        /\ (out.query_idx # 0 /\ IsOne(out.similarities[out.query_idx]))
              => /\ IsOne(out.similarities[out.top_indices[1]])
                 /\ (\A i \in 1..Len(entities_df) :
                        i # out.query_idx => ~ IsOne(out.similarities[i]))
                       => out.top_indices[1] = out.query_idx

\* a search resolved to a row, top-k below the table size, the row ranked first
C7_Witness ==
    /\ out.kind = "table"
    /\ out.fn = "find_similar_entities"
    /\ out.top_k = 2 /\ Len(out.top_indices) = 2 /\ Len(entities_df) > 2
    /\ out.query_idx = 2
    /\ IsOne(out.similarities[2])
    /\ out.top_indices[1] = 2
    /\ sim_gt(out.similarities[out.top_indices[1]], out.similarities[out.top_indices[2]])

\* C8: entities of equal similarity are listed in entity-table order, both
\* inside the result and at the top-k cut.
C8_TiesInTableOrder ==
    out.kind = "table" =>
        /\ \A a, b \in 1..Len(out.top_indices) :
             (/\ a < b
              /\ ~ sim_gt(out.similarities[out.top_indices[a]],
                          out.similarities[out.top_indices[b]]))
                 => out.top_indices[a] < out.top_indices[b]
        /\ \A a \in 1..Len(out.top_indices) : \A i \in 1..Len(entities_df) :
             (/\ \A b \in 1..Len(out.top_indices) : out.top_indices[b] # i
              /\ ~ sim_gt(out.similarities[out.top_indices[a]], out.similarities[i]))
                 => out.top_indices[a] < i

\* x is a case-insensitive substring of the label of row i
MatchesRow(x, i) ==
    \E k \in 0..(Len(entities_df[i].label) - Len(x)) :
        \A m \in 1..Len(x) :
            lower_char(entities_df[i].label[k + m]) = lower_char(x[m])

Resolves(x) == \E i \in 1..Len(entities_df) : MatchesRow(x, i)

FirstRow(x) ==
    CHOOSE i \in 1..Len(entities_df) :
        MatchesRow(x, i) /\ \A k \in 1..(i - 1) : ~ MatchesRow(x, k)

Composed(a, operation, b) ==
    [j \in 1..Len(a) |->
        CASE operation = "Add (+)" -> a[j] + b[j]
          [] operation = "Subtract (-)" -> a[j] - b[j]
          [] operation = "Average" -> CHOOSE h \in -400..400 : 2 * h = a[j] + b[j]]

C10_State ==
    (out.kind # "none" /\ out.fn = "ray_plane_arithmetic") =>
        IF ~ Resolves(out.args[1]) \/ ~ Resolves(out.args[3])
        THEN out.kind = "message"
        ELSE /\ out.kind = "table"
             /\ out.query_emb = Composed(fused_embeddings[FirstRow(out.args[1])], out.args[2],
                                         fused_embeddings[FirstRow(out.args[3])])
             /\ IsTopK(out)

C10_Step ==
    (out'.kind # "none" /\ out'.fn = "ray_plane_arithmetic")
        => (entities_df' = entities_df /\ fused_embeddings' = fused_embeddings)

\* C10: ray_plane_arithmetic returns the not-found message, without raising,
\* when a label is a case-insensitive substring of no entity label, and then
\* changes neither the entity table nor the fused table; when both labels
\* resolve it ranks against vecA+vecB, vecA-vecB or (vecA+vecB)/2 of the first
\* matching entities' fused vectors.
C10_ArithmeticNotFoundOrComposed == [](C10_State) /\ [][C10_Step]_vars

\* "Ray 99" was given as a label and the not-found message came back
C10_Witness ==
    /\ out.kind = "message"
    /\ out.fn = "ray_plane_arithmetic"
    /\ out.args[1] = <<"R", "a", "y", " ", "9", "9">>
    /\ Resolves(out.args[3])

\* C11: an empty query gets a message in place of a table, never an exception
\* and never a ranking: an empty or whitespace-only search query, and an empty
\* label as either operand of ray_plane_arithmetic.
C11_EmptyQueryGetsMessage ==
    /\ (out.kind # "none" /\ out.fn = "find_similar_entities"
          /\ str_strip(out.args[1]) = <<>>)
         => out.kind = "message"
    /\ (out.kind # "none" /\ out.fn = "ray_plane_arithmetic"
          /\ (out.args[1] = <<>> \/ out.args[3] = <<>>))
         => out.kind = "message"

----------------------------------------------------------------------------
(* Properties of the relationship scorer *)

\* C1: every strength returned by calculate_dynamic_relationship lies in
\* [0, 1] (0..1000 thousandths), for every ray, plane, context and cycle.
C1_StrengthInUnitInterval ==
    rel # NoRel => (0 <= rel.strength /\ rel.strength <= 1000)

\* a score of a known context whose unclamped value exceeds 1 (0.9 * 1.2 * 1.2)
C1_Witness ==
    /\ rel # NoRel
    /\ rel.ray = 1 /\ rel.plane = 1
    /\ rel.context = "spiritual" /\ rel.cycle_phase = "outgoing"
    /\ rel.strength = 1000

\* C4: calculate_dynamic_relationship(4, 4, 'human', 'balanced') has strength
\* exactly 1.0.
C4_FourFourHumanBalancedIsOne ==
    (/\ rel # NoRel
     /\ rel.ray = 4 /\ rel.plane = 4
     /\ rel.context = "human" /\ rel.cycle_phase = "balanced")
        => rel.strength = 1000

\* the (4, 4, human, balanced) score has been computed
C4_Witness ==
    /\ rel # NoRel
    /\ rel.ray = 4 /\ rel.plane = 4
    /\ rel.context = "human" /\ rel.cycle_phase = "balanced"

BandOrder ==
    <<"minimal_connection", "subtle_resonance", "moderate_interaction",
      "strong_influence", "primary_channel">>

BandRank(label) == CHOOSE i \in 1..5 : BandOrder[i] = label

\* the label the five bands of the claim give to a strength
BandOf(strength, label) ==
    /\ label \in {BandOrder[i] : i \in 1..5}
    /\ (label = "primary_channel") <=> (strength > 800)
    /\ (label = "strong_influence") <=> (600 < strength /\ strength <= 800)
    /\ (label = "moderate_interaction") <=> (400 < strength /\ strength <= 600)
    /\ (label = "subtle_resonance") <=> (200 < strength /\ strength <= 400)
    /\ (label = "minimal_connection") <=> (strength <= 200)

\* C5: the interaction label depends on strength alone through five
\* contiguous bands (> 0.8, > 0.6, > 0.4, > 0.2, else), and a larger strength
\* never gets a lower band.
C5_BandsContiguousMonotonic ==
    band # NoBand =>
        /\ BandOf(band.lo, band.lo_type)
        /\ BandOf(band.hi, band.hi_type)
        /\ BandRank(band.lo_type) <= BandRank(band.hi_type)

\* two strengths on either side of a threshold have been labelled
C5_Witness ==
    /\ band # NoBand
    /\ band.lo = 800 /\ band.lo_type = "strong_influence"
    /\ band.hi = 801 /\ band.hi_type = "primary_channel"

\* C6: the matrix has 49 records in ray-major, plane-minor order, and an
\* exported file read back has 49 records whose (ray, plane) pairs are exactly
\* 1..7 x 1..7 without repetition, with total_relationships = 49.
C6_MatrixOrderAndRoundTrip ==
    /\ matrix # <<>> =>
          /\ Len(matrix) = 49
          /\ \A r \in 1..7, p \in 1..7 :
                matrix[7 * (r - 1) + p].ray = r /\ matrix[7 * (r - 1) + p].plane = p
    /\ imported # NoFile =>
          LET rels == imported.relationships
              pairs == {<<rels[i].ray, rels[i].plane>> : i \in 1..Len(rels)}
          IN  /\ Len(rels) = 49
              /\ pairs = (1..7) \X (1..7)
              /\ \A i, k \in 1..Len(rels) :
                    (rels[i].ray = rels[k].ray /\ rels[i].plane = rels[k].plane) => i = k
              /\ imported.total_relationships = 49

\* the human matrix has been generated, exported and read back
C6_Witness ==
    /\ matrix # <<>> /\ matrix[1].context = "human"
    /\ imported # NoFile /\ imported.context = "human"
    /\ Len(imported.relationships) = 49


----------------------------------------------------------------------------
(* Properties of the graph builder *)

\* C3: every head and every tail of every triple the builder returned is the
\* id of an entity in the entity list it returned, with or without the
\* relationship export present.
C3_TripleEndsAreEntityIds ==
    \A t \in 1..Len(triples) :
        /\ triples[t][1] \in entity_ids(entities)
        /\ triples[t][3] \in entity_ids(entities)


\* a triple of the dynamic ray-plane relationships
IsDynamic(t) ==
    t[2] \in {"flows_through", "strongly_influences", "interacts_with", "resonates_with",
              "relates_to"}

WithoutDynamic(ts) == SelectSeq(ts, LAMBDA t : ~ IsDynamic(t))

OnlyDynamic(ts) == SelectSeq(ts, IsDynamic)

\* a run of the builder has just ended
BuildStep == <<entities, triples, printed>>' # <<entities, triples, printed>>

\* a run without the file returned its lists
C13_State ==
    printed = <<NotFoundLine>> => (Len(entities) > 0 /\ Len(triples) > 0 /\ OnlyDynamic(triples) = <<>>)

\* a run with the file follows a run without it
C13_Step ==
    (printed = <<NotFoundLine>> /\ BuildStep /\ printed' = <<>>)
        => /\ entities' = entities
           /\ triples = WithoutDynamic(triples')

\* C13: with the relationship export absent the builder completes without
\* error and returns the entity list it returns with the file present, and
\* the with-file triple list less its dynamic ray-plane triples, the fixed
\* triples being all there in the same order.
C13_AbsentExportFixedTriplesOnly == [](C13_State) /\ [][C13_Step]_vars

\* the builder has run without the file, and the file is there for the next run
C13_Witness ==
    /\ printed = <<NotFoundLine>>
    /\ Len(triples) = 176
    /\ files[export_filename("human")] = json_dump_output(export_output("human"))

\* the relation the claim gives for an interaction type
RelationFor(interaction_type) ==
    CASE interaction_type = "primary_channel" -> "flows_through"
      [] interaction_type = "strong_influence" -> "strongly_influences"
      [] interaction_type = "moderate_interaction" -> "interacts_with"
      [] interaction_type = "subtle_resonance" -> "resonates_with"
      [] OTHER -> "relates_to"

\* one triple for each record above 0.6, in the order of the records
ExpectedDynamic(records) ==
    LET strong == SelectSeq(records, LAMBDA r : r.strength > 600)
    IN  [k \in 1..Len(strong) |->
            <<"Ray" \o ToString(strong[k].ray), RelationFor(strong[k].interaction_type),
              "Plane" \o ToString(strong[k].plane)>>]

C14_Step ==
    (BuildStep /\ files[export_filename("human")] # NoFile)
        => OnlyDynamic(triples') =
               ExpectedDynamic(json_load(files[export_filename("human")]).relationships)

\* C14: with the relationship export present the builder appends one triple
\* (Ray r, relation, Plane p) for each record with strength above 0.6 and none
\* for a record at or below 0.6; the relation is flows_through,
\* strongly_influences, interacts_with or resonates_with for primary_channel,
\* strong_influence, moderate_interaction or subtle_resonance, and relates_to
\* for any other interaction type.
C14_DynamicTriplesFromStrongRecords == [][C14_Step]_vars

\* a run on a file holding a record at 0.6 and a moderate_interaction above it
C14_Witness ==
    /\ printed = <<>> /\ Len(entities) > 0
    /\ \E k \in 1..Len(json_load(files[export_filename("human")]).relationships) :
          json_load(files[export_filename("human")]).relationships[k].strength = 600
    /\ OnlyDynamic(triples) = << <<"Ray2", "interacts_with", "Plane3">> >>

\* C15: no two entities of the list returned for the repository's taxonomy
\* have the same id.
C15_EntityIdsUnique ==
    \A i, j \in 1..Len(entities) : entities[i].id = entities[j].id => i = j

\* the builder has returned its 78 entities, the six quotes among them
C15_Witness ==
    /\ Len(entities) = 78
    /\ {"Ray1", "Plane7", "Quality_Conflict", "Name_Adi", "Humanity", "Color_Red",
        "Quote_1", "Quote_6"} \subseteq entity_ids(entities)


----------------------------------------------------------------------------
(* Properties of the pipeline *)

\* C16: rows are aligned through the trainer's entity-id <-> index mapping:
\* the graph table has one row per entity of the entity table, and the fused
\* vector at an entity's row combines that entity's graph vector, which is the
\* row the mapping gives the entity, with that entity's text vector.
C16_RowsAligned ==
    (loaded.kind = "loaded" \/ (loaded.kind = "exception" /\ loaded.type = "ValueError")) =>
        /\ loaded.kind = "loaded"
        /\ Len(loaded.kg_embeddings) = Len(loaded.entities_df)
        /\ \A i \in 1..Len(loaded.entities_df) :
             /\ loaded.entities_df[i].id \in DOMAIN loaded.entity_mapping.entity_to_id
             /\ loaded.fused_embeddings[i].kg.row
                    = loaded.entity_mapping.entity_to_id[loaded.entities_df[i].id] + 1
             /\ loaded.fused_embeddings[i].text.row = i


----------------------------------------------------------------------------
(* Properties of the numeric edge cases *)

\* C17: numeric edge cases get a fallback constant and never an undefined
\* value: the harmonic ratio is 1 when the plane frequency is 0, and a graph
\* vector of zero length is fused to a defined vector.
C17_NumericEdgeCasesGuarded ==
    /\ (harmony # NoHarmony /\ harmony.plane_frequency = 0)
           => harmony.harmonic_ratio = frac(1, 1)
    /\ \A i \in 1..Len(kg_embeddings) :
           linalg_norm(kg_embeddings[i]) = 0
               => \A j \in 1..Len(fused_embeddings[i]) : fused_embeddings[i][j] # NaN


----------------------------------------------------------------------------
(* Properties of the handlers run in threads *)

\* a table is the whole fusion for one weight: the fusion is, entry by entry, alpha
\* tenths of the graph-only table (weight 1.0) and the rest of the text-only table
\* (weight 0.0)
IsWholeTable(table, graph_only, text_only) ==
    \E alpha \in AlphaSlider :
        /\ Len(table) = Len(graph_only)
        /\ \A i \in 1..Len(table) :
              /\ Len(table[i]) = Len(graph_only[i])
              /\ \A j \in 1..Len(table[i]) :
                    10 * table[i][j] = alpha * graph_only[i][j] + (10 - alpha) * text_only[i][j]

\* a table written out as a tuple of tuples
AsTuples(table) ==
    SubSeq([i \in 1..Len(table) |-> SubSeq(table[i], 1, Len(table[i]))], 1, Len(table))

C18_State ==
    LET graph_only == AsTuples(create_fused_embeddings(10))
        text_only == AsTuples(create_fused_embeddings(0))
    IN  /\ IsWholeTable(fused_embeddings, graph_only, text_only)
        /\ \A k \in 1..Len(reads) : IsWholeTable(reads[k], graph_only, text_only)

C18_Step ==
    fused_embeddings' # fused_embeddings
        => (building # NoBuild /\ fused_embeddings' = building.table
              /\ building.table = create_fused_embeddings(building.alpha))

\* C18: with a rebuild of the fused table interleaved with similarity and
\* arithmetic queries, every read of the table by a query finds a whole table,
\* the previous one or the new one, never a table rebuilt in part: the new
\* table is computed in full and then put in place in one step.
C18_NoHalfRebuiltTable == [](C18_State) /\ [][C18_Step]_vars

\* a query read the table before and after a rebuild was stored
C18_Witness ==
    /\ out.kind = "table"
    /\ Len(reads) >= 2
    /\ reads[1] # reads[Len(reads)]


----------------------------------------------------------------------------
(* Properties of the scorer's composition and of its base table *)

\* the bonus of the fourth ray and the fourth plane, thousandths
FourthBonus(ray_num, plane_num) ==
    IF ray_num = 4 /\ plane_num = 4 THEN 200
    ELSE IF (ray_num = 4) # (plane_num = 4) THEN 100
    ELSE 0

\* base * context * cycle + bonus, thousandths (three factors in tenths)
Composed3(r) ==
    _get_base_affinity(r.ray, r.plane)
        * _get_context_modifier(r.ray, r.plane, r.context)
        * _get_cycle_modifier(r.ray, r.plane, r.cycle_phase)
        + FourthBonus(r.ray, r.plane)

\* C19: for every ray, plane, context and cycle the strength is
\* clamp(base * context_modifier * cycle_modifier + bonus, 0, 1), the bonus being
\* 0.2 for ray 4 with plane 4, 0.1 when exactly one of them is 4 and 0 otherwise;
\* the bonus is added after the multiplication.
C19_StrengthIsClampedComposition ==
    rel # NoRel =>
        rel.strength = (IF Composed3(rel) < 0 THEN 0
                        ELSE IF Composed3(rel) > 1000 THEN 1000
                        ELSE Composed3(rel))

\* a score with one fourth below the clamp: 0.2 * 0.7 * 1.0 + 0.1
C19_Witness ==
    /\ rel # NoRel
    /\ rel.ray = 4 /\ rel.plane = 1
    /\ rel.context = "animal" /\ rel.cycle_phase = "balanced"
    /\ rel.strength = 240

InTables(ray_num, plane_num) ==
    <<ray_num, plane_num>> \in DOMAIN primary_pairs \cup DOMAIN secondary_pairs

\* C20: _get_base_affinity returns a value for every ray and plane of 1..7: the
\* constant of the primary table for a pair of that table, else the constant of
\* the secondary table for a pair of that table, else 0.9 when |ray - plane| = 0,
\* 0.4 when |ray - plane| <= 2 and 0.2 otherwise; every value is within [0, 1].
C20_BaseAffinityTotal ==
    (affinity # NoAffinity /\ affinity.ray_num \in 1..7 /\ affinity.plane_num \in 1..7) =>
        LET pair == <<affinity.ray_num, affinity.plane_num>>
            diff == IF affinity.ray_num < affinity.plane_num
                    THEN affinity.plane_num - affinity.ray_num
                    ELSE affinity.ray_num - affinity.plane_num
        IN  /\ affinity.value \in 0..10
            /\ pair \in DOMAIN primary_pairs => affinity.value = primary_pairs[pair]
            /\ (pair \notin DOMAIN primary_pairs /\ pair \in DOMAIN secondary_pairs)
                   => affinity.value = secondary_pairs[pair]
            /\ ~InTables(pair[1], pair[2])
                   => affinity.value = (IF diff = 0 THEN 9 ELSE IF diff <= 2 THEN 4 ELSE 2)

\* the one pair of neither table with |ray - plane| = 2 has been looked up
C20_Witness ==
    /\ affinity # NoAffinity
    /\ affinity.ray_num = 7 /\ affinity.plane_num = 5
    /\ ~InTables(7, 5)
    /\ affinity.value = 4


----------------------------------------------------------------------------
(* Properties of the scorer's modifiers *)

\* the two rules of a context, as <<rays, planes, factor in tenths>>
ContextRules(context) ==
    IF context = "human" THEN <<<<{4}, {4}, 13>>, <<{2, 5}, {5, 6}, 11>>>>
    ELSE IF context = "spiritual" THEN <<<<{1, 2}, {1, 2, 3}, 12>>, <<{6, 7}, {6, 7}, 8>>>>
    ELSE IF context = "animal" THEN <<<<{3, 6}, {6, 7}, 12>>, <<{1, 5}, {1, 2}, 7>>>>
    ELSE <<>>

RuleMatches(rule, ray_num, plane_num) == ray_num \in rule[1] \/ plane_num \in rule[2]

\* the factor of the first rule that matches, 1.0 when none does
FirstRuleFactor(context, ray_num, plane_num) ==
    LET rules == ContextRules(context)
        hits == {k \in 1..Len(rules) : RuleMatches(rules[k], ray_num, plane_num)}
    IN  IF hits = {} THEN 10
        ELSE rules[CHOOSE k \in hits : \A other \in hits : k <= other][3]

\* C21: the context modifier is 1.0 by default and otherwise a boost within
\* [1.1, 1.3] or a reduction within [0.7, 0.9], by the two rules of the contexts
\* human, spiritual and animal; when a pair matches both rules of its context
\* the first one is applied alone.
C21_ContextModifierFirstRuleWins ==
    rel # NoRel =>
        /\ score_locals.context_modifier = FirstRuleFactor(rel.context, rel.ray, rel.plane)
        /\ score_locals.context_modifier \in {10} \cup 11..13 \cup 7..9

\* a pair that matches both rules of the spiritual context (ray 1, plane 7) got the boost
C21_Witness ==
    /\ rel # NoRel
    /\ rel.context = "spiritual" /\ rel.ray = 1 /\ rel.plane = 7
    /\ RuleMatches(ContextRules("spiritual")[1], 1, 7)
    /\ RuleMatches(ContextRules("spiritual")[2], 1, 7)
    /\ score_locals.context_modifier = 12


IsOdd(n) == n % 2 = 1

\* C22: the cycle modifier is 1.2 for an odd ray with cycle outgoing and for an
\* even ray with cycle incoming, 0.9 for an even ray with outgoing and for an odd
\* ray with incoming, and 1.0 for every ray with cycle balanced; it is the same
\* for every plane.
C22_CycleModifierByRayParity ==
    rel # NoRel =>
        score_locals.cycle_modifier =
            (CASE rel.cycle_phase = "balanced" -> 10
               [] rel.cycle_phase = "outgoing" /\ IsOdd(rel.ray) -> 12
               [] rel.cycle_phase = "incoming" /\ ~IsOdd(rel.ray) -> 12
               [] rel.cycle_phase = "outgoing" /\ ~IsOdd(rel.ray) -> 9
               [] rel.cycle_phase = "incoming" /\ IsOdd(rel.ray) -> 9)

\* an odd ray on an even plane scored with cycle outgoing
C22_Witness ==
    /\ rel # NoRel
    /\ rel.ray = 3 /\ rel.plane = 4 /\ rel.cycle_phase = "outgoing"
    /\ score_locals.cycle_modifier = 12


----------------------------------------------------------------------------
(* Properties of the values the handlers return *)

\* C23: ray_plane_arithmetic returns a value for each of the two output
\* components it is wired to on every path that returns: the not-found path
\* returns two values as the path that ranks does.
C23_ArithmeticReturnsBothOutputs ==
    (out.kind \in {"message", "table"} /\ out.fn = "ray_plane_arithmetic") =>
        Len(returned_values(out)) = wired_outputs(out.fn)


\* C24: a non-empty search query that matches no label is encoded to a vector
\* with as many components as the rows of the fused table have, whatever the
\* widths of the graph and text vectors are (the fused table is truncated to the
\* smaller width), and the handler returns a result table.
C24_EncodedQueryFitsFusedTable ==
    (/\ out.kind # "none"
     /\ out.fn = "find_similar_entities"
     /\ str_strip(out.args[1]) # <<>>
     /\ label_matches(str_lower(out.args[1])) = {})
        => (out.kind = "table" /\ Len(out.query_emb) = shape1(fused_embeddings))


----------------------------------------------------------------------------
(* Further properties of the graph builder *)

\* the ids that are the head or the tail of a triple
TripleEnds(ts) == {ts[t][1] : t \in 1..Len(ts)} \cup {ts[t][3] : t \in 1..Len(ts)}

\* C25: every entity of the list the builder returned is the head or the tail
\* of at least one triple it returned, so that a trainer taking its entities
\* from the triples has a graph vector for every row of the entity table.
C25_EveryEntityInATriple ==
    entity_ids(entities) \subseteq TripleEnds(triples)


----------------------------------------------------------------------------
(* Further properties of the scorer *)

\* the contexts without a rule: two known ones and a name that is not known
RulelessContexts == {"mineral", "plant", "cosmic"}

\* C26: in the contexts mineral and plant the context modifier is 1.0 for every
\* ray and plane, so for every ray, plane and cycle the strength and the
\* interaction type of context mineral are those of context plant, and those of
\* a context name outside the five known ones.
C26_MineralAndPlantScoreAlike ==
    (rel # NoRel /\ rel.context \in RulelessContexts) =>
        /\ score_locals.context_modifier = 10
        /\ \A other \in RulelessContexts :
              LET r == calculate_dynamic_relationship(rel.ray, rel.plane, other, rel.cycle_phase)
              IN  r.strength = rel.strength /\ r.interaction_type = rel.interaction_type

\* a ray of the mineral context's ray_emphasis list scored in that context
C26_Witness ==
    /\ rel # NoRel
    /\ rel.context = "mineral" /\ rel.ray = 7 /\ rel.plane = 7 /\ rel.cycle_phase = "balanced"
    /\ rel.strength = 900


\* base * context * cycle + bonus of the locals, thousandths
Unclamped(l) ==
    l.base_relationship * l.context_modifier * l.cycle_modifier + l.fourth_emphasis

\* C29: for every ray, plane, context and cycle the value before the clamp is
\* positive, at least 0.2 * 0.7 * 0.9 = 0.126, so the lower limit of the clamp
\* never changes it and the strength is never 0: the strength is the smaller of
\* that value and 1.
C29_LowerClampNeverActs ==
    rel # NoRel =>
        /\ Unclamped(score_locals) >= 126
        /\ rel.strength > 0
        /\ rel.strength = (IF Unclamped(score_locals) > 1000 THEN 1000
                           ELSE Unclamped(score_locals))

\* the smallest score: a distant pair, reduced by the animal context and by the cycle
C29_Witness ==
    /\ rel # NoRel
    /\ rel.ray = 5 /\ rel.plane = 1
    /\ rel.context = "animal" /\ rel.cycle_phase = "incoming"
    /\ score_locals.base_relationship = 2
    /\ rel.strength = 126


\* the strength of a record's ray, plane and context with cycle modifier 1.0
BalancedStrength(r) ==
    LET value == _get_base_affinity(r.ray, r.plane)
                     * _get_context_modifier(r.ray, r.plane, r.context) * 10
                     + FourthBonus(r.ray, r.plane)
    IN  IF value > 1000 THEN 1000 ELSE IF value < 0 THEN 0 ELSE value

AllBalanced(records) ==
    /\ Len(records) = 49
    /\ \A k \in 1..Len(records) :
          /\ records[k].cycle_phase = "balanced"
          /\ records[k].strength = BalancedStrength(records[k])

\* C27: generate_full_relationship_matrix and export_relationships score with
\* cycle phase balanced: for every context each of the 49 records of the matrix
\* and of an exported file has cycle_phase balanced and the strength of
\* calculate_dynamic_relationship(ray, plane, context, 'balanced'), never one
\* changed by the outgoing or incoming cycle modifier.
C27_MatrixAlwaysBalanced ==
    /\ matrix # <<>> => AllBalanced(matrix)
    /\ imported # NoFile => AllBalanced(imported.relationships)

\* the human matrix and a file read back, with a record (ray 1, plane 1) that the
\* outgoing cycle would raise from 0.9 to 1.0
C27_Witness ==
    /\ matrix # <<>> /\ matrix[1].context = "human"
    /\ matrix[1].ray = 1 /\ matrix[1].plane = 1 /\ matrix[1].strength = 900
    /\ imported # NoFile /\ imported.relationships[1].strength = 900


\* the relationship files in the working directory that export_relationships wrote
ExportedFiles ==
    {f \in FileNames :
        \E context \in ContextArgs :
            /\ f = export_filename(context)
            /\ files[f] = json_dump_output(export_output(context))}

RelationsOf(ts) == {ts[t][2] : t \in 1..Len(ts)}

C28_State ==
    \A f \in ExportedFiles :
        LET records == json_load(files[f]).relationships
        IN  \A k \in 1..Len(records) :
                records[k].strength > 600
                    => records[k].interaction_type \in {"primary_channel", "strong_influence"}

C28_Step ==
    (BuildStep /\ export_filename("human") \in ExportedFiles)
        => RelationsOf(OnlyDynamic(triples')) \subseteq {"flows_through", "strongly_influences"}

\* C28: when the relationship export the builder reads was written by
\* export_relationships, every dynamic ray-plane triple has relation
\* flows_through or strongly_influences, and none has interacts_with,
\* resonates_with or relates_to: a record with strength above 0.6 has
\* interaction type primary_channel or strong_influence.
C28_ExportGivesTwoRelationsOnly == [](C28_State) /\ [][C28_Step]_vars

\* the builder has run on the file export_relationships wrote and both relations occur
C28_Witness ==
    /\ printed = <<>> /\ Len(triples) = 199
    /\ export_filename("human") \in ExportedFiles
    /\ RelationsOf(OnlyDynamic(triples)) = {"flows_through", "strongly_influences"}


----------------------------------------------------------------------------
(* Properties of setup.py *)

\* a command that ended with an exit status other than 0
Failed(results) == \E k \in 1..Len(results) : results[k] # 0

InLog(line) == \E k \in 1..Len(setup.log) : setup.log[k] = line

C30_State ==
    setup # NoSetup =>
        \* the commands are started in main's order, one at a time
        /\ setup.started = SubSeq(<<"python create_triples.py", "python train.py">>,
                                  1, Len(setup.started))
        /\ Len(setup.results) <= Len(setup.started)
        /\ Len(setup.started) <= Len(setup.results) + 1
        \* the training was started after the triple creation had exited with status 0
        /\ Len(setup.started) = 2 => (Len(setup.results) >= 1 /\ setup.results[1] = 0)
        \* True is returned after two successes only
        /\ setup.returned = "True" => setup.results = <<0, 0>>
        \* a failure is the end: nothing more is started, main returns False, exit status 1
        /\ Failed(setup.results) =>
              /\ Len(setup.started) = Len(setup.results)
              /\ setup.returned = "False"
              /\ ~InLog(CompleteLine)
              /\ setup.status \in {"running", "1"}
              /\ setup.pc = "exited" => setup.status = "1"
        /\ InLog(CompleteLine) => (setup.results = <<0, 0>> /\ setup.status = "0")

C30_Step ==
    (setup # NoSetup /\ setup'.started # setup.started) =>
        /\ Len(setup.results) = Len(setup.started)
        /\ ~Failed(setup.results)
        /\ setup.returned = "none"

\* C30: the steps of setup.py run in order and stop at the first failure: the
\* training command is started only after the triple creation has exited with
\* success, main returns True only when both commands succeeded, and the
\* process exits with status 1, the completion line not printed, when either
\* command failed.
C30_StepsInOrderStopAtFailure == [](C30_State) /\ [][C30_Step]_vars

\* the triple creation succeeded, the training failed, the process has exited
C30_Witness ==
    /\ setup # NoSetup
    /\ setup.pc = "exited"
    /\ setup.results = <<0, 2>>
    /\ setup.status = "1"

====
